---- MODULE Spec2Model ----
(***************************************************************************)
(* A model of metrics.go of rancher1.x-exporter: the tree model            *)
(* Projects -> Stacks -> Services -> Instances, the Prometheus vectors,    *)
(* the readers-writer lock metric.m, and the operations metric.fetch (the  *)
(* scrape with its fork-join walk), metric.collect, metric.backup and      *)
(* metric.recover.                                                          *)
(*                                                                         *)
(* Go keeps the tree as nested maps of struct values, each struct holding  *)
(* a pointer to its object (Id, Name, State, Type, BootstrapCount,         *)
(* FailureCount) and its own fields (System, StartupTime).  A map lookup   *)
(* `take, ok := o.Stacks[name]` copies the struct: writes to take.Id,      *)
(* take.State, take.BootstrapCount go through the shared *object and       *)
(* reach the tree, writes to take.System and take.StartupTime change the   *)
(* copy only.  The model keeps one map per level, keyed by the name chain. *)
(***************************************************************************)
EXTENDS Integers, Sequences, FiniteSets, TLC

-----------------------------------------------------------------------------
(* Enumerations, metrics.go lines 27-31.                                    *)

agentStates ==
    <<"activating", "active", "reconnecting", "disconnected", "disconnecting",
      "finishing-reconnect", "reconnected">>

hostStates ==
    <<"activating", "active", "deactivating", "error", "erroring", "inactive",
      "provisioned", "purged", "purging", "registering", "removed", "removing",
      "requested", "restoring", "updating_active", "updating_inactive">>

stackStates ==
    <<"activating", "active", "canceled_upgrade", "canceling_upgrade", "error",
      "erroring", "finishing_upgrade", "removed", "removing", "requested",
      "restarting", "rolling_back", "updating_active", "upgraded", "upgrading">>

serviceStates ==
    <<"activating", "active", "canceled_upgrade", "canceling_upgrade",
      "deactivating", "finishing_upgrade", "inactive", "registering", "removed",
      "removing", "requested", "restarting", "rolling_back", "updating_active",
      "updating_inactive", "upgraded", "upgrading">>

healthStates ==
    <<"healthy", "unhealthy">>

Range(s) ==
    {s[i] : i \in DOMAIN s}

-----------------------------------------------------------------------------
(* Bounds of the exploration.                                               *)

\* scrape cycles explored when the API answers freely
MaxScrapes ==
    2

\* data items one list holds over all its pages
MaxItems ==
    1

-----------------------------------------------------------------------------
(* The answers the API can give: the `data` entries of a page (targetData). *)

Bot ==
    "_|_"

ProjectData ==
    {[ID |-> "1a5", Name |-> "env"], [ID |-> "1a6", Name |-> "env2"]}

StackData ==
    [ID : {"1st1"}, Name : {"stk"}, State : {"active", "error", "upgrading"},
     HealthState : {"healthy", "unhealthy"}, System : {FALSE}, Type : {"stack"}]

ServiceData ==
    [ID : {"1s1"}, Name : {"svc"}, State : {"active", "error", "upgrading"},
     HealthState : {"healthy", "unhealthy"}, System : {FALSE}, Type : {"service"},
     Scale : {1}]

\* <<state, createdTS, firstRunningTS>> of an instance; firstRunningTS is 0
\* until the instance has run, otherwise it is not before createdTS
InstanceStates ==
    {<<"starting", 1800, 0>>, <<"running", 1800, 0>>, <<"running", 1000, 1250>>,
     <<"running", 1800, 2000>>, <<"stopped", 1800, 0>>, <<"stopped", 1000, 1250>>,
     <<"error", 1000, 1250>>}

InstanceData ==
    {[ID |-> "1i1", Name |-> "ins", State |-> st[1], System |-> sys,
      Type |-> "container", CreatedTS |-> st[2], FirstRunningTS |-> st[3]] :
        st \in InstanceStates, sys \in BOOLEAN}

HostData ==
    {[ID |-> "1h1", Name |-> "h", HostName |-> "host1", State |-> "active",
      AgentState |-> "active"],
     [ID |-> "1h1", Name |-> "", HostName |-> "host1", State |-> "unknown",
      AgentState |-> ""]}

\* the lists of at most n items of S
Lists(S, n) ==
    UNION {[1..i -> S] : i \in 0..n}

ProjNames ==
    {d.Name : d \in ProjectData}

StackNames ==
    {d.Name : d \in StackData}

ServiceNames ==
    {d.Name : d \in ServiceData}

StackKeys ==
    ProjNames \X StackNames

ServiceKeys ==
    ProjNames \X StackNames \X ServiceNames

-----------------------------------------------------------------------------
(* The Prometheus vectors: a vector is a function from the label tuples of  *)
(* its existing series to their values.                                     *)

\* strconv.FormatBool
FormatBool(b) ==
    IF b THEN "true" ELSE "false"

NoSeries ==
    <<>>

Val(vec, l) ==
    IF l \in DOMAIN vec THEN vec[l] ELSE 0

\* vec.WithLabelValues(l): the series is created at 0 when it does not exist
WithLabelValues(vec, l) ==
    [k \in DOMAIN vec \cup {l} |-> IF k \in DOMAIN vec THEN vec[k] ELSE 0]

\* vec.WithLabelValues(l).Set(v)
SetValue(vec, l, v) ==
    [k \in DOMAIN vec \cup {l} |-> IF k = l THEN v ELSE vec[k]]

\* vec.WithLabelValues(l).Add(v)
AddValue(vec, l, v) ==
    SetValue(vec, l, Val(vec, l) + v)

\* vec.WithLabelValues(l).Inc()
Inc(vec, l) ==
    AddValue(vec, l, 1)


\* one pass of the loops `for _, y := range states { if observed == y
\* { Set(1) } else { Set(0) } }`; lab[y] is the label tuple of value y
OneHotStep(vec, ys, i, lab, observed) ==
    SetValue(vec, lab[ys[i]], IF observed = ys[i] THEN 1 ELSE 0)

RECURSIVE OneHot(_, _, _, _, _)
OneHot(vec, ys, i, lab, observed) ==
    IF i > Len(ys)
    THEN vec
    ELSE OneHot(OneHotStep(vec, ys, i, lab, observed), ys, i + 1, lab, observed)

-----------------------------------------------------------------------------
VARIABLES
    Projects,     \* metric.Projects: project name -> [Id, Name]
    Stacks,       \* project.Stacks of every project: <<env, stack>> -> stack
    Services,     \* stack.Services: <<env, stack, service>> -> service
    Instances,    \* service.Instances: <<env, stack, service, instance>> -> instance
    m,            \* metric.m, the sync.RWMutex: [writer, readers]
    infinityWorksHostsState,
    infinityWorksHostAgentsState,
    infinityWorksStacksHealth,
    infinityWorksStacksState,
    infinityWorksServicesScale,
    infinityWorksServicesHealth,
    infinityWorksServicesState,
    extendingTotalStackBootstrap,
    extendingTotalStackFailure,
    extendingTotalServiceBootstrap,
    extendingTotalServiceFailure,
    extendingTotalInstanceBootstrap,
    extendingTotalInstanceFailure,
    extendingInstanceBootstrapMsCost,
    extendingStackHeartbeat,
    extendingServiceHeartbeat,
    extendingInstanceHeartbeat,
    fetchPc,      \* metric.fetch: "idle" | "wait" (lock held, branches forked)
    hostsPc,      \* the hosts goroutine of metric.fetch: "idle" | "run" | "done"
    projPc,       \* the projects goroutine: "idle" | "get" | "wait" | "done"
    ptask,        \* project.fetch of every project: [pc, n, next, page]
    stask,        \* stack.fetch of every stack
    vtask,        \* service.fetch of every service
    collectPc,    \* metric.collect: "idle" | "reading"
    phase,        \* "startup" until metric.recover has returned, then "running"
    rtask,        \* the goroutine of metric.recover of every project
    backupPc,     \* metric.backup, of every cycle: "idle" | "list" | "wait"
    btask,        \* the goroutine of metric.backup of every project, of every cycle
    genObjIdsMap, \* of metric.backup: project id -> ids of its old records
    backups,      \* backup cycles started
    genericobjects, \* the records of the server, oldest first: [ID, Key, ResourceData]
    created,      \* records the server has created so far
    obs,          \* the last observation made by a pagination loop
    scrapes,      \* scrape cycles started
    script,       \* what the API answers: the part that is free, or a scenario
    loop          \* the data item d a project.fetch is handling, and the
                  \* number y of passes of its two gauge loops made so far

model ==
    <<Projects, Stacks, Services, Instances>>

gauges ==
    <<infinityWorksHostsState, infinityWorksHostAgentsState,
      infinityWorksStacksHealth, infinityWorksStacksState,
      infinityWorksServicesScale, infinityWorksServicesHealth,
      infinityWorksServicesState>>

heartbeats ==
    <<extendingStackHeartbeat, extendingServiceHeartbeat, extendingInstanceHeartbeat>>

stackTotals ==
    <<extendingTotalStackBootstrap, extendingTotalStackFailure>>

serviceTotals ==
    <<extendingTotalServiceBootstrap, extendingTotalServiceFailure>>

instanceTotals ==
    <<extendingTotalInstanceBootstrap, extendingTotalInstanceFailure>>

totals ==
    <<stackTotals, serviceTotals, instanceTotals>>

tasks ==
    <<fetchPc, hostsPc, projPc, ptask, stask, vtask>>

checkpoint ==
    <<rtask, backupPc, btask, genObjIdsMap, backups, genericobjects, created>>

vars ==
    <<model, m, gauges, heartbeats, totals, extendingInstanceBootstrapMsCost,
      tasks, collectPc, phase, checkpoint, obs, scrapes, script, loop>>

-----------------------------------------------------------------------------
(* The task of a pagination loop: pc is "idle", "get" (about to GET the    *)
(* page at url), "obs" (n data items of the page left to handle, next says *)
(* whether pagination.next is non-empty), "fork" (the loop has ended),     *)
(* "wait" (wg.Wait) or "done"; left bounds the items still to come.  A    *)
(* project.fetch whose gauge loops are taken one Set at a time is at       *)
(* "gauge" while it handles a data item.                                   *)

Idle ==
    [pc |-> "idle", n |-> 0, next |-> FALSE, left |-> 0]

Started ==
    [pc |-> "get", n |-> 0, next |-> FALSE, left |-> MaxItems]

Returned ==
    [pc |-> "done", n |-> 0, next |-> FALSE, left |-> 0]

\* `if len(o.Id) == 0 { return }` at the head of a fetch
StartFetch(id) ==
    IF id = "" THEN Returned ELSE Started

\* a variant of Wait that returns with the first goroutine that is done
WaitForFirst(ts, S) ==
    \E k \in S : ts[k].pc = "done"

\* lines 688, 540 and 1016, wg.Wait(): every goroutine the loop before it
\* has started has called wg.Done()
Wait(ts, S) ==
    \A k \in S : ts[k].pc \in {"idle", "done"}

\* a variant of PageEnd that leaves the loop with the first page
PageEndLeaves(t) ==
    IF t.n > 0 THEN t ELSE [t EXCEPT !.pc = "fork"]

\* the end of the range loop over t.Data, lines 672-676: follow
\* pagination.next or leave the loop
PageEnd(t) ==
    IF t.n > 0
    THEN t
    ELSE IF t.next
         THEN [t EXCEPT !.pc = "get"]
         ELSE [t EXCEPT !.pc = "fork"]

\* a variant of GotPage that starts the goroutines of the children before
\* the page is ranged over
GotPageThenFork(t, n, next) ==
    [pc |-> "fork", n |-> n, next |-> next, left |-> t.left - n]

\* t := rancherClient.get(url): a page of n items
GotPage(t, n, next) ==
    PageEnd([pc |-> "obs", n |-> n, next |-> next, left |-> t.left - n])

\* one data item handled
Handled(t) ==
    PageEnd([t EXCEPT !.n = @ - 1])

-----------------------------------------------------------------------------
(* The scenarios of the specification's section 8: what the API answers in *)
(* scrape cycle c at each level (one page, of no or one item).             *)

ScenarioLength ==
    4

EnvProject ==
    [ID |-> "1a5", Name |-> "env"]

StkStack(state, health) ==
    [ID |-> "1st1", Name |-> "stk", State |-> state, HealthState |-> health,
     System |-> FALSE, Type |-> "stack"]

SvcService ==
    [ID |-> "1s1", Name |-> "svc", State |-> "active", HealthState |-> "healthy",
     System |-> FALSE, Type |-> "service", Scale |-> 1]

InsInstance(state, createdTS, firstRunningTS) ==
    [ID |-> "1i1", Name |-> "ins", State |-> state, System |-> FALSE,
     Type |-> "container", CreatedTS |-> createdTS,
     FirstRunningTS |-> firstRunningTS]

\* Scenarios A and B: the service appears empty, then its instance is seen
\* running, in error, and running again
ScenarioB(level, c) ==
    CASE level = "stack" -> <<StkStack("active", "healthy")>>
      [] level = "service" -> <<SvcService>>
      [] level = "instance" ->
            CASE c = 1 -> <<>>
              [] c = 2 -> <<InsInstance("running", 1000, 1250)>>
              [] c = 3 -> <<InsInstance("error", 1000, 1250)>>
              [] OTHER -> <<InsInstance("running", 1800, 2000)>>

\* Scenario C: the stack flaps
ScenarioC(level, c) ==
    CASE level = "stack" ->
            CASE c = 1 -> <<StkStack("active", "healthy")>>
              [] c = 2 -> <<StkStack("upgrading", "healthy")>>
              [] OTHER -> <<StkStack("active", "unhealthy")>>
      [] OTHER -> <<>>

Scenarios ==
    {"B", "C"}

\* otherwise script names the one part of the environment that behaves
\* freely: the API answers freely at that level and with one fixed item at
\* the others; under "backup" the backup cycles run and their POSTs may fail
Levels ==
    {"host", "project", "stack", "service", "instance", "backup"}

\* under "rename" the one stack has no services
ScriptPage(level) ==
    CASE script = "B" -> ScenarioB(level, scrapes)
      [] script = "C" -> ScenarioC(level, scrapes)
      [] script = "rename" -> ScenarioC(level, 1)
      [] script = "clock" -> ScenarioB(level, IF scrapes <= 2 THEN 2 ELSE 1)
      [] OTHER -> ScenarioB(level, 2)

\* no observation
NoObs ==
    [kind |-> "none", key |-> <<>>, prev |-> Bot, d |-> <<>>]

\* the pages the API may answer with: <<number of data items, whether
\* pagination.next is non-empty>>
PageChoices(level, t) ==
    IF script \in {level, "pages"}
    THEN {c \in (0..t.left) \X BOOLEAN : c[2] => t.left - c[1] > 0}
    ELSE {<<Len(ScriptPage(level)), FALSE>>}

\* the data items the range loop may meet next
Items(level, all) ==
    CASE script = level -> all
      [] script = "rename" /\ level = "stack" ->
            {StkStack("active", "healthy"), StkStack("error", "healthy")}
      [] OTHER -> {ScriptPage(level)[1]}

\* no data item in hand
NoItem ==
    [d |-> <<>>, y |-> 0]

-----------------------------------------------------------------------------
(* project.fetch, lines 553-691: the stacks of one project.                *)

\* a variant of stackTake that does not compare with the stored state
stackTakeEveryScrape(takeState, d) ==
    CASE d.State = "active" ->
            <<1, IF d.HealthState = "unhealthy" THEN 1 ELSE 0>>
      [] d.State = "error" -> <<1, 1>>
      [] OTHER -> <<0, 0>>

\* a variant of stackTake in which an unhealthy stack is a failure whatever
\* state it enters
stackTakeUnhealthyFails(takeState, d) ==
    IF takeState # d.State
    THEN <<IF d.State \in {"active", "error"} THEN 1 ELSE 0,
           IF d.State = "error" \/ d.HealthState = "unhealthy" THEN 1 ELSE 0>>
    ELSE <<0, 0>>

\* lines 608-625, the stack is in o.Stacks: the increments <<bootstrap, failure>>
stackTake(takeState, d) ==
    IF takeState # d.State
    THEN CASE d.State = "active" ->
                <<1, IF d.HealthState = "unhealthy" THEN 1 ELSE 0>>
           [] d.State = "error" -> <<1, 1>>
           [] OTHER -> <<0, 0>>
    ELSE <<0, 0>>

\* lines 632-654, the stack is new: <<bootstrapCount, failureCount>>
stackNew(d) ==
    CASE d.State = "active" ->
            <<1, IF d.HealthState = "unhealthy" THEN 1 ELSE 0>>
      [] d.State = "error" -> <<1, 1>>
      [] OTHER -> <<0, 0>>

\* a variant of TakeSeries that counts from an emptied vector
TakeSeriesAfterReset(vec, l, delta) ==
    IF delta = 1 THEN Inc(NoSeries, l) ELSE vec

\* the counter series after the existing branch: Inc() where the switch
\* counts, no call otherwise
TakeSeries(vec, l, delta) ==
    IF delta = 1 THEN Inc(vec, l) ELSE vec

\* a variant of NewSeries without the bare WithLabelValues
NewSeriesWhenCounted(vec, l, delta) ==
    IF delta = 1 THEN Inc(vec, l) ELSE vec

\* the counter series after the new branch: Inc() where the switch counts,
\* a bare WithLabelValues otherwise
NewSeries(vec, l, delta) ==
    IF delta = 1 THEN Inc(vec, l) ELSE WithLabelValues(vec, l)

\* a variant of stackUpdate that overwrites the counters by the increments
stackUpdateOverwrite(take, d, delta) ==
    [take EXCEPT !.Id = d.ID, !.Type = d.Type, !.State = d.State,
                 !.BootstrapCount = delta[1], !.FailureCount = delta[2]]

\* lines 627-630: take.Id, take.Type and take.State are fields of the shared
\* object; take.System is a field of the copy `take` and is lost
stackUpdate(take, d, delta) ==
    [take EXCEPT !.Id = d.ID, !.Type = d.Type, !.State = d.State,
                 !.BootstrapCount = @ + delta[1], !.FailureCount = @ + delta[2]]

\* lines 656-668
stackCreate(d, delta) ==
    [Id |-> d.ID, Name |-> d.Name, State |-> d.State, Type |-> d.Type,
     BootstrapCount |-> delta[1], FailureCount |-> delta[2], System |-> d.System]

\* lines 573-574
ProjectFetchGet(p) ==
    /\ ptask[p].pc = "get"
    /\ \E c \in PageChoices("stack", ptask[p]) :
          ptask' = [ptask EXCEPT ![p] = GotPage(@, c[1], c[2])]
    /\ UNCHANGED <<model, m, gauges, heartbeats, totals,
                   extendingInstanceBootstrapMsCost, fetchPc, hostsPc, projPc,
                   stask, vtask, collectPc, scrapes, script, loop, phase, checkpoint>>
    /\ obs' = NoObs

\* lines 576-670, the body of the range loop for one data item d
ProjectFetchObserve(p) ==
    /\ ptask[p].pc = "obs"
    /\ \E d \in Items("stack", StackData) :
          LET k == <<p, d.Name>>
              stackSystem == FormatBool(d.System)
              l == <<p, d.Name, stackSystem, d.Type>>
              lab == [y \in Range(healthStates) \cup Range(stackStates) |->
                         <<d.ID, d.Name, y, stackSystem>>]
              ok == k \in DOMAIN Stacks
              delta == IF ok THEN stackTake(Stacks[k].State, d) ELSE stackNew(d)
          IN  /\ infinityWorksStacksHealth' =
                    OneHot(infinityWorksStacksHealth, healthStates, 1, lab, d.HealthState)
              /\ infinityWorksStacksState' =
                    OneHot(infinityWorksStacksState, stackStates, 1, lab, d.State)
              /\ extendingStackHeartbeat' = SetValue(extendingStackHeartbeat, l, 1)
              /\ IF ok
                 THEN /\ extendingTotalStackBootstrap' =
                            TakeSeries(extendingTotalStackBootstrap, l, delta[1])
                      /\ extendingTotalStackFailure' =
                            TakeSeries(extendingTotalStackFailure, l, delta[2])
                      /\ Stacks' = [Stacks EXCEPT ![k] = stackUpdate(@, d, delta)]
                 ELSE /\ extendingTotalStackBootstrap' =
                            NewSeries(extendingTotalStackBootstrap, l, delta[1])
                      /\ extendingTotalStackFailure' =
                            NewSeries(extendingTotalStackFailure, l, delta[2])
                      /\ Stacks' = Stacks @@ (k :> stackCreate(d, delta))
              /\ obs' = [kind |-> "stack", key |-> k,
                         prev |-> IF ok THEN Stacks[k].State ELSE Bot, d |-> d]
    /\ ptask' = [ptask EXCEPT ![p] = Handled(@)]
    /\ UNCHANGED <<Projects, Services, Instances, m, infinityWorksHostsState,
                   infinityWorksHostAgentsState, infinityWorksServicesScale,
                   infinityWorksServicesHealth, infinityWorksServicesState,
                   extendingServiceHeartbeat, extendingInstanceHeartbeat,
                   serviceTotals, instanceTotals, extendingInstanceBootstrapMsCost,
                   fetchPc, hostsPc, projPc, stask, vtask, collectPc, scrapes, script, loop, phase, checkpoint>>


\* lines 576-587: the range loop takes the next data item d; the steps
\* ProjectFetchItem, ProjectFetchHealth, ProjectFetchState and
\* ProjectFetchAccount are the body that ProjectFetchObserve takes in one
\* step, with every Set of the two gauge loops a step of its own
ProjectFetchItem(p) ==
    /\ ptask[p].pc = "obs"
    /\ loop[p] = NoItem
    /\ \E d \in Items("stack", StackData) :
          loop' = [loop EXCEPT ![p] = [d |-> d, y |-> 0]]
    /\ ptask' = [ptask EXCEPT ![p].pc = "gauge"]
    /\ UNCHANGED <<model, m, gauges, heartbeats, totals,
                   extendingInstanceBootstrapMsCost, fetchPc, hostsPc, projPc,
                   stask, vtask, collectPc, scrapes, script, phase, checkpoint>>
    /\ obs' = NoObs

\* the label tuples of the stack gauges of data item d
stackGaugeLabels(d) ==
    [y \in Range(healthStates) \cup Range(stackStates) |->
        <<d.ID, d.Name, y, FormatBool(d.System)>>]

\* lines 589-595: one pass of the loop over healthStates
ProjectFetchHealth(p) ==
    /\ ptask[p].pc = "gauge"
    /\ loop[p].y < Len(healthStates)
    /\ LET d == loop[p].d
       IN  infinityWorksStacksHealth' =
              OneHotStep(infinityWorksStacksHealth, healthStates, loop[p].y + 1,
                         stackGaugeLabels(d), d.HealthState)
    /\ loop' = [loop EXCEPT ![p].y = @ + 1]
    /\ UNCHANGED <<model, m, infinityWorksHostsState, infinityWorksHostAgentsState,
                   infinityWorksStacksState, infinityWorksServicesScale,
                   infinityWorksServicesHealth, infinityWorksServicesState,
                   heartbeats, totals, extendingInstanceBootstrapMsCost, tasks,
                   collectPc, scrapes, script, phase, checkpoint>>
    /\ obs' = NoObs

\* lines 596-602: one pass of the loop over stackStates
ProjectFetchState(p) ==
    /\ ptask[p].pc = "gauge"
    /\ loop[p].y >= Len(healthStates)
    /\ loop[p].y < Len(healthStates) + Len(stackStates)
    /\ LET d == loop[p].d
       IN  infinityWorksStacksState' =
              OneHotStep(infinityWorksStacksState, stackStates,
                         loop[p].y - Len(healthStates) + 1,
                         stackGaugeLabels(d), d.State)
    /\ loop' = [loop EXCEPT ![p].y = @ + 1]
    /\ UNCHANGED <<model, m, infinityWorksHostsState, infinityWorksHostAgentsState,
                   infinityWorksStacksHealth, infinityWorksServicesScale,
                   infinityWorksServicesHealth, infinityWorksServicesState,
                   heartbeats, totals, extendingInstanceBootstrapMsCost, tasks,
                   collectPc, scrapes, script, phase, checkpoint>>
    /\ obs' = NoObs

\* lines 605-670: the heartbeat and the accounting of data item d
ProjectFetchAccount(p) ==
    /\ ptask[p].pc = "gauge"
    /\ loop[p].y = Len(healthStates) + Len(stackStates)
    /\ LET d == loop[p].d
           k == <<p, d.Name>>
           l == <<p, d.Name, FormatBool(d.System), d.Type>>
           ok == k \in DOMAIN Stacks
           delta == IF ok THEN stackTake(Stacks[k].State, d) ELSE stackNew(d)
       IN  /\ extendingStackHeartbeat' = SetValue(extendingStackHeartbeat, l, 1)
           /\ IF ok
              THEN /\ extendingTotalStackBootstrap' =
                         TakeSeries(extendingTotalStackBootstrap, l, delta[1])
                   /\ extendingTotalStackFailure' =
                         TakeSeries(extendingTotalStackFailure, l, delta[2])
                   /\ Stacks' = [Stacks EXCEPT ![k] = stackUpdate(@, d, delta)]
              ELSE /\ extendingTotalStackBootstrap' =
                         NewSeries(extendingTotalStackBootstrap, l, delta[1])
                   /\ extendingTotalStackFailure' =
                         NewSeries(extendingTotalStackFailure, l, delta[2])
                   /\ Stacks' = Stacks @@ (k :> stackCreate(d, delta))
           /\ obs' = [kind |-> "stack", key |-> k,
                      prev |-> IF ok THEN Stacks[k].State ELSE Bot, d |-> d]
    /\ ptask' = [ptask EXCEPT ![p] = Handled([@ EXCEPT !.pc = "obs"])]
    /\ loop' = [loop EXCEPT ![p] = NoItem]
    /\ UNCHANGED <<Projects, Services, Instances, m, gauges,
                   extendingServiceHeartbeat, extendingInstanceHeartbeat,
                   serviceTotals, instanceTotals,
                   extendingInstanceBootstrapMsCost, fetchPc, hostsPc, projPc,
                   stask, vtask, collectPc, scrapes, script, phase, checkpoint>>

\* lines 679-687: one goroutine stk.fetch per stack of o.Stacks
ProjectFetchFork(p) ==
    /\ ptask[p].pc = "fork"
    /\ ptask' = [ptask EXCEPT ![p].pc = "wait"]
    /\ stask' = [k \in StackKeys |->
                    IF k[1] = p /\ k \in DOMAIN Stacks
                    THEN StartFetch(Stacks[k].Id)
                    ELSE stask[k]]
    /\ UNCHANGED <<model, m, gauges, heartbeats, totals,
                   extendingInstanceBootstrapMsCost, fetchPc, hostsPc, projPc,
                   vtask, collectPc, scrapes, script, loop, phase, checkpoint>>
    /\ obs' = NoObs

\* line 688, wg.Wait(), and the return of project.fetch
ProjectFetchJoin(p) ==
    /\ ptask[p].pc = "wait"
    /\ Wait(stask, {k \in StackKeys : k[1] = p})
    /\ ptask' = [ptask EXCEPT ![p] = Returned]
    /\ stask' = [k \in StackKeys |-> IF k[1] = p THEN Idle ELSE stask[k]]
    /\ UNCHANGED <<model, m, gauges, heartbeats, totals,
                   extendingInstanceBootstrapMsCost, fetchPc, hostsPc, projPc,
                   vtask, collectPc, scrapes, script, loop, phase, checkpoint>>
    /\ obs' = NoObs

-----------------------------------------------------------------------------
(* stack.fetch, lines 402-543: the services of one stack.                  *)

\* a variant of serviceTake that does not look at the health state
serviceTakeIgnoresHealth(takeState, d) ==
    IF takeState # d.State
    THEN CASE d.State = "active" -> <<1, 0>>
           [] d.State = "error" -> <<1, 1>>
           [] OTHER -> <<0, 0>>
    ELSE <<0, 0>>

\* lines 460-477, the service is in o.Services
serviceTake(takeState, d) ==
    IF takeState # d.State
    THEN CASE d.State = "active" ->
                <<1, IF d.HealthState = "unhealthy" THEN 1 ELSE 0>>
           [] d.State = "error" -> <<1, 1>>
           [] OTHER -> <<0, 0>>
    ELSE <<0, 0>>

\* lines 484-506, the service is new
serviceNew(d) ==
    CASE d.State = "active" ->
            <<1, IF d.HealthState = "unhealthy" THEN 1 ELSE 0>>
      [] d.State = "error" -> <<1, 1>>
      [] OTHER -> <<0, 0>>

\* lines 479-482: take.System is a field of the copy and is lost
serviceUpdate(take, d, delta) ==
    [take EXCEPT !.Id = d.ID, !.Type = d.Type, !.State = d.State,
                 !.BootstrapCount = @ + delta[1], !.FailureCount = @ + delta[2]]

\* lines 508-520
serviceCreate(d, delta) ==
    [Id |-> d.ID, Name |-> d.Name, State |-> d.State, Type |-> d.Type,
     BootstrapCount |-> delta[1], FailureCount |-> delta[2], System |-> d.System]

\* lines 422-423
StackFetchGet(k) ==
    /\ stask[k].pc = "get"
    /\ \E c \in PageChoices("service", stask[k]) :
          stask' = [stask EXCEPT ![k] = GotPage(@, c[1], c[2])]
    /\ UNCHANGED <<model, m, gauges, heartbeats, totals,
                   extendingInstanceBootstrapMsCost, fetchPc, hostsPc, projPc,
                   ptask, vtask, collectPc, scrapes, script, loop, phase, checkpoint>>
    /\ obs' = NoObs

\* lines 425-522, the body of the range loop for one data item d
StackFetchObserve(k) ==
    /\ stask[k].pc = "obs"
    /\ \E d \in Items("service", ServiceData) :
          LET kk == <<k[1], k[2], d.Name>>
              serviceSystem == FormatBool(d.System)
              stackId == Stacks[k].Id
              l == <<k[1], k[2], d.Name, serviceSystem, d.Type>>
              lab == [y \in Range(healthStates) \cup Range(serviceStates) |->
                         <<d.ID, stackId, d.Name, k[2], y, serviceSystem>>]
              ok == kk \in DOMAIN Services
              delta == IF ok THEN serviceTake(Services[kk].State, d) ELSE serviceNew(d)
          IN  /\ infinityWorksServicesScale' =
                    SetValue(infinityWorksServicesScale,
                             <<d.Name, k[2], serviceSystem>>, d.Scale)
              /\ infinityWorksServicesHealth' =
                    OneHot(infinityWorksServicesHealth, healthStates, 1, lab, d.HealthState)
              /\ infinityWorksServicesState' =
                    OneHot(infinityWorksServicesState, serviceStates, 1, lab, d.State)
              /\ extendingServiceHeartbeat' = SetValue(extendingServiceHeartbeat, l, 1)
              /\ IF ok
                 THEN /\ extendingTotalServiceBootstrap' =
                            TakeSeries(extendingTotalServiceBootstrap, l, delta[1])
                      /\ extendingTotalServiceFailure' =
                            TakeSeries(extendingTotalServiceFailure, l, delta[2])
                      /\ Services' = [Services EXCEPT ![kk] = serviceUpdate(@, d, delta)]
                 ELSE /\ extendingTotalServiceBootstrap' =
                            NewSeries(extendingTotalServiceBootstrap, l, delta[1])
                      /\ extendingTotalServiceFailure' =
                            NewSeries(extendingTotalServiceFailure, l, delta[2])
                      /\ Services' = Services @@ (kk :> serviceCreate(d, delta))
              /\ obs' = [kind |-> "service", key |-> kk,
                         prev |-> IF ok THEN Services[kk].State ELSE Bot, d |-> d]
    /\ stask' = [stask EXCEPT ![k] = Handled(@)]
    /\ UNCHANGED <<Projects, Stacks, Instances, m, infinityWorksHostsState,
                   infinityWorksHostAgentsState, infinityWorksStacksHealth,
                   infinityWorksStacksState, extendingStackHeartbeat,
                   extendingInstanceHeartbeat, stackTotals, instanceTotals,
                   extendingInstanceBootstrapMsCost, fetchPc, hostsPc, projPc,
                   ptask, vtask, collectPc, scrapes, script, loop, phase, checkpoint>>

\* lines 531-539: one goroutine svc.fetch per service of o.Services
StackFetchFork(k) ==
    /\ stask[k].pc = "fork"
    /\ stask' = [stask EXCEPT ![k].pc = "wait"]
    /\ vtask' = [kk \in ServiceKeys |->
                    IF <<kk[1], kk[2]>> = k /\ kk \in DOMAIN Services
                    THEN StartFetch(Services[kk].Id)
                    ELSE vtask[kk]]
    /\ UNCHANGED <<model, m, gauges, heartbeats, totals,
                   extendingInstanceBootstrapMsCost, fetchPc, hostsPc, projPc,
                   ptask, collectPc, scrapes, script, loop, phase, checkpoint>>
    /\ obs' = NoObs

\* line 540, wg.Wait(), and the return of stack.fetch
StackFetchJoin(k) ==
    /\ stask[k].pc = "wait"
    /\ Wait(vtask, {kk \in ServiceKeys : <<kk[1], kk[2]>> = k})
    /\ stask' = [stask EXCEPT ![k] = Returned]
    /\ vtask' = [kk \in ServiceKeys |->
                    IF <<kk[1], kk[2]>> = k THEN Idle ELSE vtask[kk]]
    /\ UNCHANGED <<model, m, gauges, heartbeats, totals,
                   extendingInstanceBootstrapMsCost, fetchPc, hostsPc, projPc,
                   ptask, collectPc, scrapes, script, loop, phase, checkpoint>>
    /\ obs' = NoObs

-----------------------------------------------------------------------------
(* uint64 and float64, lines 229-230 and 318-320: a uint64 is the sequence *)
(* of its four digits of 16 bits, the least significant first; a float64   *)
(* that holds a whole number below 2^80 is the sequence of the five digits *)
(* of that number.                                                          *)

Limb ==
    2 ^ 16

\* the bits of the significand of a float64
Mantissa ==
    53

\* the uint64 of a number below 2^31
Uint64(n) ==
    <<n % Limb, n \div Limb, 0, 0>>

\* the digits i.. of a - b, with the borrow of the digits below i
RECURSIVE SubLimbs(_, _, _, _)
SubLimbs(a, b, i, borrow) ==
    IF i > Len(a)
    THEN <<>>
    ELSE LET delta == a[i] - b[i] - borrow
         IN  <<delta % Limb>> \o SubLimbs(a, b, i + 1, IF delta < 0 THEN 1 ELSE 0)

\* a variant of Sub64 that takes the difference the other way round
Sub64Swapped(a, b) ==
    SubLimbs(b, a, 1, 0)

\* lines 319 and 353, a - b of two uint64: the borrow out of the highest
\* digit is dropped
Sub64(a, b) ==
    SubLimbs(a, b, 1, 0)

\* the digits i.. of x + carry * Limb^(i-1)
RECURSIVE Carry(_, _, _)
Carry(x, i, carry) ==
    IF i > Len(x)
    THEN <<>>
    ELSE <<(x[i] + carry) % Limb>> \o Carry(x, i + 1, (x[i] + carry) \div Limb)

\* the number of bits of n
RECURSIVE Bits(_)
Bits(n) ==
    IF n = 0 THEN 0 ELSE 1 + Bits(n \div 2)

\* the number of bits of a uint64
BitLen(x) ==
    LET top == {i \in 1..Len(x) : x[i] # 0}
    IN  IF top = {}
        THEN 0
        ELSE LET i == CHOOSE j \in top : \A h \in top : h <= j
             IN  16 * (i - 1) + Bits(x[i])

\* lines 320 and 354, float64(x) of a uint64: the nearest number of at most
\* Mantissa significant bits, the even one of two that are as near
Float64(x) ==
    LET k == IF BitLen(x) > Mantissa THEN BitLen(x) - Mantissa ELSE 0
        ulp == 2 ^ k
        r == x[1] % ulp
        down == [x EXCEPT ![1] = @ - r] \o <<0>>
        odd == (x[1] \div ulp) % 2 = 1
    IN  IF 2 * r > ulp \/ (2 * r = ulp /\ odd)
        THEN Carry(down, 1, ulp)
        ELSE down

-----------------------------------------------------------------------------
(* service.fetch, lines 277-390: the instances of one service.             *)

\* lines 319 and 353: instanceStartupTime = d.FirstRunningTS - d.CreatedTS
\* (the API answers enumerated in InstanceStates have FirstRunningTS >=
\* CreatedTS when it is not 0, and a difference that a float64 holds as it
\* is; ClockObserve takes the difference and its float64 at full width)
startupTime(d) ==
    d.FirstRunningTS - d.CreatedTS

\* a variant of instanceTake in which an entry into error is a failure and
\* not a bootstrap
instanceTakeErrorIsNoBootstrap(takeState, d) ==
    IF takeState # d.State
    THEN CASE d.State = "running" -> <<1, 0>>
           [] d.State = "error" -> <<0, 1>>
           [] OTHER -> <<0, 0>>
    ELSE <<0, 0>>

\* a variant of instanceTake that does not compare with the stored state
instanceTakeEveryScrape(takeState, d) ==
    CASE d.State = "running" -> <<1, 0>>
      [] d.State = "error" -> <<1, 1>>
      [] OTHER -> <<0, 0>>

\* lines 314-333, the instance is in o.Instances: <<bootstrap, failure>>
instanceTake(takeState, d) ==
    IF takeState # d.State
    THEN CASE d.State = "running" -> <<1, 0>>
           [] d.State = "error" -> <<1, 1>>
           [] OTHER -> <<0, 0>>
    ELSE <<0, 0>>

\* lines 342-364, the instance is new: <<bootstrapCount, failureCount>>
instanceNew(d) ==
    CASE d.State = "error" -> <<1, 1>>
      [] d.State \in {"stopped", "running"} -> <<1, 0>>
      [] OTHER -> <<0, 0>>

\* lines 316-321: whether the existing branch sets instance_startup_ms
instanceTakeSetsMs(takeState, d) ==
    takeState # d.State /\ d.State = "running" /\ d.FirstRunningTS # 0

\* a variant of instanceNewSetsMs that does not look at FirstRunningTS
instanceNewSetsMsAlways(d) ==
    d.State \in {"stopped", "running"}

\* lines 349-355: whether the new branch sets instance_startup_ms
instanceNewSetsMs(d) ==
    d.State \in {"stopped", "running"} /\ d.FirstRunningTS # 0

\* a variant of instanceUpdate in which the counts are fields of the copy
\* too
instanceUpdateOfACopy(take, d, delta) ==
    [take EXCEPT !.Id = d.ID, !.Type = d.Type, !.State = d.State]

\* lines 322 and 335-338: take.StartupTime and take.System are fields of the
\* copy `take` and are lost
instanceUpdate(take, d, delta) ==
    [take EXCEPT !.Id = d.ID, !.Type = d.Type, !.State = d.State,
                 !.BootstrapCount = @ + delta[1], !.FailureCount = @ + delta[2]]

\* lines 366-378
instanceCreate(d, delta) ==
    [Id |-> d.ID, Name |-> d.Name, State |-> d.State, Type |-> d.Type,
     BootstrapCount |-> delta[1], FailureCount |-> delta[2], System |-> d.System,
     StartupTime |-> IF instanceNewSetsMs(d) THEN startupTime(d) ELSE 0]

\* lines 292-293
ServiceFetchGet(k) ==
    /\ vtask[k].pc = "get"
    /\ \E c \in PageChoices("instance", vtask[k]) :
          vtask' = [vtask EXCEPT ![k] = GotPage(@, c[1], c[2])]
    /\ UNCHANGED <<model, m, gauges, heartbeats, totals,
                   extendingInstanceBootstrapMsCost, fetchPc, hostsPc, projPc,
                   ptask, stask, collectPc, scrapes, script, loop, phase, checkpoint>>
    /\ obs' = NoObs

\* lines 295-380, the body of the range loop for one data item d
ServiceFetchObserve(k) ==
    /\ vtask[k].pc = "obs"
    /\ \E d \in Items("instance", InstanceData) :
          LET kk == <<k[1], k[2], k[3], d.Name>>
              l == <<k[1], k[2], k[3], d.Name, FormatBool(d.System), d.Type>>
              ok == kk \in DOMAIN Instances
              delta == IF ok THEN instanceTake(Instances[kk].State, d)
                             ELSE instanceNew(d)
              setsMs == IF ok THEN instanceTakeSetsMs(Instances[kk].State, d)
                              ELSE instanceNewSetsMs(d)
          IN  /\ extendingInstanceHeartbeat' = SetValue(extendingInstanceHeartbeat, l, 1)
              /\ extendingInstanceBootstrapMsCost' =
                    IF setsMs
                    THEN SetValue(extendingInstanceBootstrapMsCost, l, startupTime(d))
                    ELSE extendingInstanceBootstrapMsCost
              /\ IF ok
                 THEN /\ extendingTotalInstanceBootstrap' =
                            TakeSeries(extendingTotalInstanceBootstrap, l, delta[1])
                      /\ extendingTotalInstanceFailure' =
                            TakeSeries(extendingTotalInstanceFailure, l, delta[2])
                      /\ Instances' = [Instances EXCEPT ![kk] = instanceUpdate(@, d, delta)]
                 ELSE /\ extendingTotalInstanceBootstrap' =
                            NewSeries(extendingTotalInstanceBootstrap, l, delta[1])
                      /\ extendingTotalInstanceFailure' =
                            NewSeries(extendingTotalInstanceFailure, l, delta[2])
                      /\ Instances' = Instances @@ (kk :> instanceCreate(d, delta))
              /\ obs' = [kind |-> "instance", key |-> kk,
                         prev |-> IF ok THEN Instances[kk].State ELSE Bot, d |-> d]
    /\ vtask' = [vtask EXCEPT ![k] = Handled(@)]
    /\ UNCHANGED <<Projects, Stacks, Services, m, gauges, extendingStackHeartbeat,
                   extendingServiceHeartbeat, stackTotals, serviceTotals,
                   fetchPc, hostsPc, projPc, ptask, stask, collectPc, scrapes, script, loop, phase, checkpoint>>

\* lines 382-389: the loop has ended and service.fetch returns
ServiceFetchReturn(k) ==
    /\ vtask[k].pc = "fork"
    /\ vtask' = [vtask EXCEPT ![k] = Returned]
    /\ UNCHANGED <<model, m, gauges, heartbeats, totals,
                   extendingInstanceBootstrapMsCost, fetchPc, hostsPc, projPc,
                   ptask, stask, collectPc, scrapes, script, loop, phase, checkpoint>>
    /\ obs' = NoObs

-----------------------------------------------------------------------------
(* sync.RWMutex                                                             *)

\* the scheduler starts the scrapes, the backups and the scrape endpoint
\* when metric.recover has returned
Recovered ==
    phase = "running"

\* a variant of CanLock that does not wait for the readers
CanLockDespiteReaders(mu) ==
    ~mu.writer

\* Lock() returns when no reader and no writer holds the mutex
CanLock(mu) ==
    ~mu.writer /\ mu.readers = 0

\* RLock() returns when no writer holds the mutex
CanRLock(mu) ==
    ~mu.writer

\* a variant of Lock that takes the mutex as a reader
LockAsReader(mu) ==
    [mu EXCEPT !.readers = @ + 1]

Lock(mu) ==
    [mu EXCEPT !.writer = TRUE]

Unlock(mu) ==
    [mu EXCEPT !.writer = FALSE]

RLock(mu) ==
    [mu EXCEPT !.readers = @ + 1]

RUnlock(mu) ==
    [mu EXCEPT !.readers = @ - 1]

-----------------------------------------------------------------------------
(* metric.fetch, lines 916-1022: one scrape cycle.                         *)

ScrapeLimit ==
    IF script \in Scenarios THEN ScenarioLength ELSE MaxScrapes

\* a variant of Reset that leaves the series of the last scrape
ResetKeepsSeries(vec) ==
    vec

\* lines 927-939: vec.Reset() deletes every series of the vector
Reset(vec) ==
    NoSeries

\* lines 923-945 and 982: Lock, the resets, and the two goroutines
FetchLock ==
    /\ fetchPc = "idle"
    /\ Recovered
    /\ scrapes < ScrapeLimit
    /\ CanLock(m)
    /\ m' = Lock(m)
    /\ infinityWorksHostsState' = Reset(infinityWorksHostsState)
    /\ infinityWorksHostAgentsState' = Reset(infinityWorksHostAgentsState)
    /\ infinityWorksStacksHealth' = Reset(infinityWorksStacksHealth)
    /\ infinityWorksStacksState' = Reset(infinityWorksStacksState)
    /\ infinityWorksServicesScale' = Reset(infinityWorksServicesScale)
    /\ infinityWorksServicesHealth' = Reset(infinityWorksServicesHealth)
    /\ infinityWorksServicesState' = Reset(infinityWorksServicesState)
    /\ extendingInstanceHeartbeat' = Reset(extendingInstanceHeartbeat)
    /\ extendingServiceHeartbeat' = Reset(extendingServiceHeartbeat)
    /\ extendingStackHeartbeat' = Reset(extendingStackHeartbeat)
    /\ fetchPc' = "wait"
    /\ hostsPc' = "run"
    /\ projPc' = "get"
    /\ scrapes' = scrapes + 1
    /\ UNCHANGED <<model, totals, extendingInstanceBootstrapMsCost, ptask, stask,
                   vtask, collectPc, script, loop, phase, checkpoint>>
    /\ obs' = NoObs

\* lines 952-977, the body of the range loop over the hosts
RECURSIVE hostGauges(_, _, _)
hostGauges(g, data, i) ==
    IF i > Len(data)
    THEN g
    ELSE LET d == data[i]
             hostName == IF d.Name # "" THEN d.Name ELSE d.HostName
             lab == [y \in Range(hostStates) \cup Range(agentStates) |->
                        <<d.ID, hostName, y>>]
         IN  hostGauges(<<OneHot(g[1], hostStates, 1, lab, d.State),
                          OneHot(g[2], agentStates, 1, lab, d.AgentState)>>,
                        data, i + 1)

HostPages ==
    IF script = "host" THEN Lists(HostData, MaxItems) ELSE {<<>>}

\* lines 946-979, the hosts goroutine
FetchHosts ==
    /\ hostsPc = "run"
    /\ \E data \in HostPages :
          LET g == hostGauges(<<infinityWorksHostsState, infinityWorksHostAgentsState>>,
                              data, 1)
          IN  /\ infinityWorksHostsState' = g[1]
              /\ infinityWorksHostAgentsState' = g[2]
    /\ hostsPc' = "done"
    /\ UNCHANGED <<model, m, infinityWorksStacksHealth, infinityWorksStacksState,
                   infinityWorksServicesScale, infinityWorksServicesHealth,
                   infinityWorksServicesState, heartbeats, totals,
                   extendingInstanceBootstrapMsCost, fetchPc, projPc, ptask, stask,
                   vtask, collectPc, scrapes, script, loop, phase, checkpoint>>
    /\ obs' = NoObs

\* a variant of upsertProjects that keeps the projects of the snapshot only
snapshotProjects(P, data, i) ==
    [n \in {data[j].Name : j \in i..Len(data)} |->
        LET last == CHOOSE j \in i..Len(data) :
                       /\ data[j].Name = n
                       /\ \A h \in i..Len(data) : data[h].Name = n => h <= j
        IN  [Id |-> data[last].ID, Name |-> n]]

\* lines 988-1005 (and 714-731 of metric.recover): the projects are added
\* to o.Projects by name; take.Id is a field of the shared object
RECURSIVE upsertProjects(_, _, _)
upsertProjects(P, data, i) ==
    IF i > Len(data)
    THEN P
    ELSE LET d == data[i]
         IN  upsertProjects(IF d.Name \in DOMAIN P
                            THEN [P EXCEPT ![d.Name].Id = d.ID]
                            ELSE P @@ (d.Name :> [Id |-> d.ID, Name |-> d.Name]),
                            data, i + 1)

\* under "rename" the one project is listed under either of two names,
\* under "keys" there are two projects
ProjectPages ==
    CASE script = "project" -> Lists(ProjectData, MaxItems)
      [] script = "keys" ->
            {<<EnvProject, [ID |-> "1a6", Name |-> "env2"]>>}
      [] script = "rename" -> {<<EnvProject>>, <<[EnvProject EXCEPT !.Name = "env2"]>>}
      [] OTHER -> {<<EnvProject>>}

\* lines 983-1015: GET /projects, the upsert, one goroutine pro.fetch per
\* project of o.Projects
FetchProjects ==
    /\ projPc = "get"
    /\ \E data \in ProjectPages :
          /\ Projects' = upsertProjects(Projects, data, 1)
          /\ ptask' = [p \in ProjNames |->
                          IF p \in DOMAIN Projects'
                          THEN StartFetch(Projects'[p].Id)
                          ELSE ptask[p]]
    /\ projPc' = "wait"
    /\ UNCHANGED <<Stacks, Services, Instances, m, gauges, heartbeats, totals,
                   extendingInstanceBootstrapMsCost, fetchPc, hostsPc, stask,
                   vtask, collectPc, scrapes, script, loop, phase, checkpoint>>
    /\ obs' = NoObs

\* line 1016, wg.Wait(), and the end of the projects goroutine
FetchProjectsJoin ==
    /\ projPc = "wait"
    /\ Wait(ptask, ProjNames)
    /\ projPc' = "done"
    /\ ptask' = [p \in ProjNames |-> Idle]
    /\ UNCHANGED <<model, m, gauges, heartbeats, totals,
                   extendingInstanceBootstrapMsCost, fetchPc, hostsPc, stask,
                   vtask, collectPc, scrapes, script, loop, phase, checkpoint>>
    /\ obs' = NoObs

\* lines 1019-1022 and 924: gwg.Wait(), then the deferred Unlock
FetchUnlock ==
    /\ fetchPc = "wait"
    /\ hostsPc = "done"
    /\ projPc = "done"
    /\ m' = Unlock(m)
    /\ fetchPc' = "idle"
    /\ hostsPc' = "idle"
    /\ projPc' = "idle"
    /\ UNCHANGED <<model, gauges, heartbeats, totals,
                   extendingInstanceBootstrapMsCost, ptask, stask, vtask,
                   collectPc, scrapes, script, loop, phase, checkpoint>>
    /\ obs' = NoObs

-----------------------------------------------------------------------------
(* metric.collect, lines 1052-1081.                                        *)

\* line 1053
CollectRLock ==
    /\ collectPc = "idle"
    /\ Recovered
    /\ CanRLock(m)
    /\ m' = RLock(m)
    /\ collectPc' = "reading"
    /\ UNCHANGED <<model, gauges, heartbeats, totals,
                   extendingInstanceBootstrapMsCost, tasks, scrapes, script, loop, phase, checkpoint>>
    /\ obs' = NoObs

\* lines 1058-1081: every vector is forwarded, then RUnlock
CollectRUnlock ==
    /\ collectPc = "reading"
    /\ m' = RUnlock(m)
    /\ collectPc' = "idle"
    /\ UNCHANGED <<model, gauges, heartbeats, totals,
                   extendingInstanceBootstrapMsCost, tasks, scrapes, script, loop, phase, checkpoint>>
    /\ obs' = NoObs

-----------------------------------------------------------------------------
(* The generic objects of the server and the checkpoint they hold.  The    *)
(* resourceData of a record is a project as json.Marshal writes it: the    *)
(* fields of its object and its stacks, each with its services, each with  *)
(* its instances (the parent pointers are not exported).                   *)

\* json.Marshal(pro), line 881-883
Serialise(p) ==
    [Id |-> Projects[p].Id,
     Name |-> Projects[p].Name,
     Stacks |-> [s \in {k[2] : k \in {x \in DOMAIN Stacks : x[1] = p}} |->
                    Stacks[<<p, s>>]],
     Services |-> [sv \in {<<k[2], k[3]>> : k \in {x \in DOMAIN Services : x[1] = p}} |->
                    Services[<<p, sv[1], sv[2]>>]],
     Instances |-> [svi \in {<<k[2], k[3], k[4]>> :
                                k \in {x \in DOMAIN Instances : x[1] = p}} |->
                    Instances[<<p, svi[1], svi[2], svi[3]>>]]]

\* GET /genericobjects?name=..&key=<key>&kind=..
RecordsOf(key) ==
    SelectSeq(genericobjects, LAMBDA r : r.Key = key)

\* a checkpoint an earlier run of the exporter has left on the server
EarlierCheckpoint ==
    [Id |-> "1a5", Name |-> "env",
     Stacks |-> ("stk" :> [Id |-> "1st1", Name |-> "stk", State |-> "active",
                           Type |-> "stack", BootstrapCount |-> 5,
                           FailureCount |-> 2, System |-> FALSE]),
     Services |-> (<<"stk", "svc">> :>
                          [Id |-> "1s1", Name |-> "svc", State |-> "active",
                           Type |-> "service", BootstrapCount |-> 1,
                           FailureCount |-> 0, System |-> FALSE]),
     Instances |-> (<<"stk", "svc", "ins">> :>
                          [Id |-> "1i1", Name |-> "ins", State |-> "running",
                           Type |-> "container", BootstrapCount |-> 1,
                           FailureCount |-> 0, System |-> FALSE,
                           StartupTime |-> 250])]

\* what the server may hold when the exporter starts
EarlierRecords ==
    {<<>>, <<[ID |-> 1, Key |-> "1a5", ResourceData |-> EarlierCheckpoint]>>}

\* a checkpoint of a second project, which has no stack
OtherCheckpoint ==
    [Id |-> "1a6", Name |-> "env2", Stacks |-> <<>>, Services |-> <<>>,
     Instances |-> <<>>]

\* the server holds the checkpoint of one project ("overlap"), or of two
\* projects, one of them with an old and a new record ("keys")
CheckpointRecords ==
    IF script = "overlap"
    THEN {<<[ID |-> 1, Key |-> "1a5", ResourceData |-> EarlierCheckpoint]>>}
    ELSE {<<[ID |-> 1, Key |-> "1a5", ResourceData |-> EarlierCheckpoint],
            [ID |-> 2, Key |-> "1a6", ResourceData |-> OtherCheckpoint],
            [ID |-> 3, Key |-> "1a5", ResourceData |-> EarlierCheckpoint]>>}

-----------------------------------------------------------------------------
(* metric.recover, lines 701-841.  It takes no lock.                       *)

\* vec.WithLabelValues(label[k]).Add(amount[k]) for every k of keys; the
\* label tuples of distinct keys are distinct
RECURSIVE AddAll(_, _, _, _)
AddAll(vec, keys, label, amount) ==
    IF keys = {}
    THEN vec
    ELSE LET k == CHOOSE x \in keys : TRUE
         IN  AddAll(AddValue(vec, label[k], amount[k]), keys \ {k}, label, amount)

\* vec.WithLabelValues(label[k]).Set(amount[k]) for every k of keys
RECURSIVE SetAll(_, _, _, _)
SetAll(vec, keys, label, amount) ==
    IF keys = {}
    THEN vec
    ELSE LET k == CHOOSE x \in keys : TRUE
         IN  SetAll(SetValue(vec, label[k], amount[k]), keys \ {k}, label, amount)

\* lines 712-731 and 736-739: GET /projects, the upsert, one goroutine per
\* project of o.Projects
RecoverProjects ==
    /\ phase = "startup"
    /\ \A p \in ProjNames : rtask[p] = "idle"
    /\ \E data \in ProjectPages :
          /\ Projects' = upsertProjects(Projects, data, 1)
          /\ rtask' = [p \in ProjNames |->
                          IF p \in DOMAIN Projects' THEN "get" ELSE "done"]
    /\ UNCHANGED <<Stacks, Services, Instances, m, gauges, heartbeats, totals,
                   extendingInstanceBootstrapMsCost, tasks, collectPc, phase,
                   backupPc, btask, genObjIdsMap, backups, genericobjects,
                   created, scrapes, script, loop>>
    /\ obs' = NoObs

\* lines 739-836, the goroutine of project p: the last record of its key is
\* put back into the tree and into the vectors.  The stacks, services and
\* instances of the record are decoded by encoding/json (line 190) into
\* structs that embed a pointer to the unexported struct object (lines
\* 247-275).  A toolchain before Go 1.10 allocates the object and fills it,
\* and the record is put back; since Go 1.10 json leaves the pointer nil,
\* and sStack.Id (line 751) dereferences it in a goroutine that has no
\* recover: the process ends.
RecoverProject(p) ==
    /\ phase = "startup"
    /\ rtask[p] = "get"
    /\ rtask' = [rtask EXCEPT ![p] = "done"]
    /\ LET t == RecordsOf(Projects[p].Id)
       IN  IF Len(t) # 0
           THEN LET storeProject == t[Len(t)].ResourceData
                    sk == DOMAIN storeProject.Stacks
                    vk == DOMAIN storeProject.Services
                    ik == DOMAIN storeProject.Instances
                    sl == [s \in sk |->
                             <<p, storeProject.Stacks[s].Name,
                               FormatBool(storeProject.Stacks[s].System),
                               storeProject.Stacks[s].Type>>]
                    vl == [v \in vk |->
                             <<p, v[1], storeProject.Services[v].Name,
                               FormatBool(storeProject.Services[v].System),
                               storeProject.Services[v].Type>>]
                    il == [i \in ik |->
                             <<p, i[1], i[2], storeProject.Instances[i].Name,
                               FormatBool(storeProject.Instances[i].System),
                               storeProject.Instances[i].Type>>]
                IN  \/ /\ phase' = phase
                       /\ Stacks' =
                             [k \in DOMAIN Stacks \cup {<<p, s>> : s \in sk} |->
                                 IF k[1] = p /\ k[2] \in sk
                                 THEN storeProject.Stacks[k[2]]
                                 ELSE Stacks[k]]
                       /\ Services' =
                             [k \in DOMAIN Services \cup {<<p, v[1], v[2]>> : v \in vk} |->
                                 IF k[1] = p /\ <<k[2], k[3]>> \in vk
                                 THEN storeProject.Services[<<k[2], k[3]>>]
                                 ELSE Services[k]]
                       /\ Instances' =
                             [k \in DOMAIN Instances \cup
                                       {<<p, i[1], i[2], i[3]>> : i \in ik} |->
                                 IF k[1] = p /\ <<k[2], k[3], k[4]>> \in ik
                                 THEN storeProject.Instances[<<k[2], k[3], k[4]>>]
                                 ELSE Instances[k]]
                       /\ extendingTotalStackBootstrap' =
                             AddAll(extendingTotalStackBootstrap, sk, sl,
                                    [s \in sk |-> storeProject.Stacks[s].BootstrapCount])
                       /\ extendingTotalStackFailure' =
                             AddAll(extendingTotalStackFailure, sk, sl,
                                    [s \in sk |-> storeProject.Stacks[s].FailureCount])
                       /\ extendingTotalServiceBootstrap' =
                             AddAll(extendingTotalServiceBootstrap, vk, vl,
                                    [v \in vk |-> storeProject.Services[v].BootstrapCount])
                       /\ extendingTotalServiceFailure' =
                             AddAll(extendingTotalServiceFailure, vk, vl,
                                    [v \in vk |-> storeProject.Services[v].FailureCount])
                       /\ extendingTotalInstanceBootstrap' =
                             AddAll(extendingTotalInstanceBootstrap, ik, il,
                                    [i \in ik |-> storeProject.Instances[i].BootstrapCount])
                       /\ extendingTotalInstanceFailure' =
                             AddAll(extendingTotalInstanceFailure, ik, il,
                                    [i \in ik |-> storeProject.Instances[i].FailureCount])
                       /\ extendingInstanceBootstrapMsCost' =
                             SetAll(extendingInstanceBootstrapMsCost, ik, il,
                                    [i \in ik |-> storeProject.Instances[i].StartupTime])
                    \/ /\ sk # {}
                       /\ phase' = "crashed"
                       /\ UNCHANGED <<Stacks, Services, Instances, totals,
                                      extendingInstanceBootstrapMsCost>>
           ELSE UNCHANGED <<Stacks, Services, Instances, totals,
                            extendingInstanceBootstrapMsCost, phase>>
    /\ UNCHANGED <<Projects, m, gauges, heartbeats, tasks, collectPc,
                   backupPc, btask, genObjIdsMap, backups, genericobjects,
                   created, scrapes, script, loop>>
    /\ obs' = NoObs

\* line 838, wg.Wait(), and the return of metric.recover
RecoverJoin ==
    /\ phase = "startup"
    /\ \E p \in ProjNames : rtask[p] # "idle"
    /\ \A p \in ProjNames : rtask[p] = "done"
    /\ phase' = "running"
    /\ UNCHANGED <<model, m, gauges, heartbeats, totals,
                   extendingInstanceBootstrapMsCost, tasks, collectPc, checkpoint,
                   scrapes, script, loop>>
    /\ obs' = NoObs

-----------------------------------------------------------------------------
(* metric.backup, lines 843-914.                                           *)

\* backup cycles explored when the scheduler runs them one after another
MaxBackups ==
    1

\* backup cycles explored when the scheduler starts a cycle whether or not
\* the last one has returned (script "overlap")
MaxCycles ==
    2

\* the backup cycles in progress together: a cycle, and the cycle started
\* before it has returned
Cycles ==
    {1, 2}

BackupLimit ==
    IF script = "overlap" THEN MaxCycles ELSE MaxBackups

\* http.StatusCreated and http.StatusAccepted
StatusCreated ==
    201

StatusAccepted ==
    202

\* lines 859-865: the ids of the records, grouped by key, in the order of
\* the list
RECURSIVE groupIds(_, _, _)
groupIds(g, data, i) ==
    IF i > Len(data)
    THEN g
    ELSE LET d == data[i]
         IN  groupIds(IF d.Key \in DOMAIN g
                      THEN [g EXCEPT ![d.Key] = Append(@, d.ID)]
                      ELSE g @@ (d.Key :> <<d.ID>>),
                      data, i + 1)

\* the goroutine of one project in one backup cycle: the ids it has still
\* to remove, the ID of the record the server has made for it (0: none),
\* and whether its create was answered 201 and each of its removes, so
\* far, 202
NoBackup ==
    [pc |-> "idle", ids |-> <<>>, made |-> 0, clean |-> FALSE]

\* lines 850-851
BackupRLock(b) ==
    /\ backupPc[b] = "idle"
    /\ b = 1 \/ (script = "overlap" /\ backupPc[1] # "idle")
    /\ Recovered
    /\ script \in {"backup", "overlap", "keys", "restart"}
    /\ backups < BackupLimit
    /\ CanRLock(m)
    /\ m' = RLock(m)
    /\ backupPc' = [backupPc EXCEPT ![b] = "list"]
    /\ backups' = backups + 1
    /\ UNCHANGED <<model, gauges, heartbeats, totals,
                   extendingInstanceBootstrapMsCost, tasks, collectPc, phase,
                   rtask, btask, genObjIdsMap, genericobjects, created, scrapes,
                   script, loop>>
    /\ obs' = NoObs

\* lines 854-875: the list of the records, and one goroutine per project
BackupList(b) ==
    /\ backupPc[b] = "list"
    /\ genObjIdsMap' = [genObjIdsMap EXCEPT ![b] = groupIds(<<>>, genericobjects, 1)]
    /\ btask' = [btask EXCEPT ![b] =
                    [p \in ProjNames |->
                        IF p \in DOMAIN Projects
                        THEN [NoBackup EXCEPT !.pc = "create"]
                        ELSE NoBackup]]
    /\ backupPc' = [backupPc EXCEPT ![b] = "wait"]
    /\ UNCHANGED <<model, m, gauges, heartbeats, totals,
                   extendingInstanceBootstrapMsCost, tasks, collectPc, phase,
                   rtask, backups, genericobjects, created, scrapes, script, loop>>
    /\ obs' = NoObs

\* a variant of oldIds with the ids of the first key of the list, whichever
\* the project
oldIdsOfFirstKey(b, p) ==
    IF genericobjects # <<>> /\ genericobjects[1].Key \in DOMAIN genObjIdsMap[b]
    THEN genObjIdsMap[b][genericobjects[1].Key]
    ELSE <<>>

\* line 896: genObjIdsMap[pro.Id]
oldIds(b, p) ==
    IF Projects[p].Id \in DOMAIN genObjIdsMap[b]
    THEN genObjIdsMap[b][Projects[p].Id]
    ELSE <<>>

\* a variant of toRemove that does not look at the answer to the create
toRemoveWhatever(genObjIds, statusCode) ==
    genObjIds

\* a variant of toRemove that looks at the error of the POST and not at its
\* status
toRemoveUnlessError(genObjIds, statusCode) ==
    IF statusCode # 0 THEN genObjIds ELSE <<>>

\* lines 889-896: the old records are removed when the create was answered
\* 201 and in no other case
toRemove(genObjIds, statusCode) ==
    IF statusCode = StatusCreated THEN genObjIds ELSE <<>>

\* a variant of goroutine in which a project that fails ends the others
goroutineEndsAll(ts, p, t) ==
    IF t.pc = "done" /\ ~t.clean
    THEN [q \in DOMAIN ts |->
             IF q = p THEN t
             ELSE IF ts[q].pc = "idle" THEN ts[q] ELSE [ts[q] EXCEPT !.pc = "done"]]
    ELSE [ts EXCEPT ![p] = t]

\* lines 871-876: a goroutine for each project (go func(pro *project)); what
\* it does changes nothing of the others
goroutine(ts, p, t) ==
    [ts EXCEPT ![p] = t]

\* the goroutine with the ids it has still to remove
Removing(t) ==
    IF t.ids = <<>> THEN [t EXCEPT !.pc = "done"] ELSE [t EXCEPT !.pc = "remove"]

\* what may become of a POST /genericobjects: the record is made and the
\* answer is 201; nothing is made and the answer is another status or an
\* error; the record is made and the answer is lost (an error)
CreateOutcomes ==
    {[made |-> TRUE, statusCode |-> StatusCreated],
     [made |-> FALSE, statusCode |-> 500],
     [made |-> FALSE, statusCode |-> 0],
     [made |-> TRUE, statusCode |-> 0]}

\* lines 877-896: json.Marshal and POST /genericobjects.  The step is
\* observed: the ids listed under the key of the project, the statusCode
\* (0 with an error) and the ID of the record the server made (0: none)
BackupCreate(b, p) ==
    /\ btask[b][p].pc = "create"
    /\ \E o \in CreateOutcomes :
          /\ IF o.made
             THEN /\ genericobjects' =
                        Append(genericobjects,
                               [ID |-> created + 1, Key |-> Projects[p].Id,
                                ResourceData |-> Serialise(p)])
                  /\ created' = created + 1
             ELSE UNCHANGED <<genericobjects, created>>
          /\ btask' = [btask EXCEPT ![b] =
                          goroutine(@, p,
                              Removing([@[p] EXCEPT
                                          !.ids = toRemove(oldIds(b, p), o.statusCode),
                                          !.made = IF o.made THEN created + 1 ELSE 0,
                                          !.clean = (o.statusCode = StatusCreated)]))]
          /\ obs' = [kind |-> "create", key |-> <<b, p>>, prev |-> oldIds(b, p),
                     d |-> [statusCode |-> o.statusCode,
                            made |-> IF o.made THEN created + 1 ELSE 0]]
    /\ UNCHANGED <<model, m, gauges, heartbeats, totals,
                   extendingInstanceBootstrapMsCost, tasks, collectPc, phase,
                   rtask, backupPc, genObjIdsMap, backups, scrapes, script, loop>>

\* lines 897-906: POST /genericobjects/<id>?action=remove; the server
\* removes the record and answers 202, or the POST fails (the record may be
\* gone already).  The step is observed: the id and the statusCode
BackupRemove(b, p) ==
    /\ btask[b][p].pc = "remove"
    /\ LET genObjId == Head(btask[b][p].ids)
       IN  \/ /\ \E i \in DOMAIN genericobjects : genericobjects[i].ID = genObjId
              /\ genericobjects' =
                    SelectSeq(genericobjects, LAMBDA r : r.ID # genObjId)
              /\ btask' = [btask EXCEPT ![b] =
                              goroutine(@, p, Removing([@[p] EXCEPT !.ids = Tail(@)]))]
              /\ obs' = [kind |-> "remove", key |-> <<b, p>>, prev |-> genObjId,
                         d |-> StatusAccepted]
           \/ /\ UNCHANGED genericobjects
              /\ btask' = [btask EXCEPT ![b] =
                              goroutine(@, p,
                                  Removing([@[p] EXCEPT !.ids = Tail(@),
                                                        !.clean = FALSE]))]
              /\ obs' = [kind |-> "remove", key |-> <<b, p>>, prev |-> genObjId,
                         d |-> 0]
    /\ UNCHANGED <<model, m, gauges, heartbeats, totals,
                   extendingInstanceBootstrapMsCost, tasks, collectPc, phase,
                   rtask, backupPc, genObjIdsMap, backups, created, scrapes,
                   script, loop>>

\* lines 911-913 and 851: wg.Wait(), then the deferred RUnlock
BackupRUnlock(b) ==
    /\ backupPc[b] = "wait"
    /\ \A p \in ProjNames : btask[b][p].pc \in {"idle", "done"}
    /\ m' = RUnlock(m)
    /\ backupPc' = [backupPc EXCEPT ![b] = "idle"]
    /\ btask' = [btask EXCEPT ![b] = [p \in ProjNames |-> NoBackup]]
    /\ genObjIdsMap' = [genObjIdsMap EXCEPT ![b] = <<>>]
    /\ UNCHANGED <<model, gauges, heartbeats, totals,
                   extendingInstanceBootstrapMsCost, tasks, collectPc, phase,
                   rtask, backups, genericobjects, created, scrapes, script,
                   loop>>
    /\ obs' = NoObs

\* one backup cycle
BackupCycle(b) ==
    \/ BackupRLock(b)
    \/ BackupList(b)
    \/ \E p \in ProjNames :
          \/ BackupCreate(b, p)
          \/ BackupRemove(b, p)
    \/ BackupRUnlock(b)

-----------------------------------------------------------------------------

\* newMetric, lines 160-167, and the vectors as declared, lines 34-148
Fresh ==
    /\ Projects = <<>>
    /\ Stacks = <<>>
    /\ Services = <<>>
    /\ Instances = <<>>
    /\ m = [writer |-> FALSE, readers |-> 0]
    /\ infinityWorksHostsState = NoSeries
    /\ infinityWorksHostAgentsState = NoSeries
    /\ infinityWorksStacksHealth = NoSeries
    /\ infinityWorksStacksState = NoSeries
    /\ infinityWorksServicesScale = NoSeries
    /\ infinityWorksServicesHealth = NoSeries
    /\ infinityWorksServicesState = NoSeries
    /\ extendingTotalStackBootstrap = NoSeries
    /\ extendingTotalStackFailure = NoSeries
    /\ extendingTotalServiceBootstrap = NoSeries
    /\ extendingTotalServiceFailure = NoSeries
    /\ extendingTotalInstanceBootstrap = NoSeries
    /\ extendingTotalInstanceFailure = NoSeries
    /\ extendingInstanceBootstrapMsCost = NoSeries
    /\ extendingStackHeartbeat = NoSeries
    /\ extendingServiceHeartbeat = NoSeries
    /\ extendingInstanceHeartbeat = NoSeries
    /\ fetchPc = "idle"
    /\ hostsPc = "idle"
    /\ projPc = "idle"
    /\ ptask = [p \in ProjNames |-> Idle]
    /\ stask = [k \in StackKeys |-> Idle]
    /\ vtask = [k \in ServiceKeys |-> Idle]
    /\ collectPc = "idle"
    /\ phase = "startup"
    /\ rtask = [p \in ProjNames |-> "idle"]
    /\ backupPc = [b \in Cycles |-> "idle"]
    /\ btask = [b \in Cycles |-> [p \in ProjNames |-> NoBackup]]
    /\ genObjIdsMap = [b \in Cycles |-> <<>>]
    /\ backups = 0
    /\ obs = NoObs
    /\ scrapes = 0
    /\ loop = [p \in ProjNames |-> NoItem]

Init ==
    /\ Fresh
    /\ script \in Levels
    /\ genericobjects \in EarlierRecords
    /\ created = Len(genericobjects)

Scrape ==
    \/ FetchLock
    \/ FetchHosts
    \/ FetchProjects
    \/ FetchProjectsJoin
    \/ FetchUnlock
    \/ \E p \in ProjNames :
          \/ ProjectFetchGet(p)
          \/ ProjectFetchObserve(p)
          \/ ProjectFetchFork(p)
          \/ ProjectFetchJoin(p)
    \/ \E k \in StackKeys :
          \/ StackFetchGet(k)
          \/ StackFetchObserve(k)
          \/ StackFetchFork(k)
          \/ StackFetchJoin(k)
    \/ \E k \in ServiceKeys :
          \/ ServiceFetchGet(k)
          \/ ServiceFetchObserve(k)
          \/ ServiceFetchReturn(k)

Collect ==
    \/ CollectRLock
    \/ CollectRUnlock

Recover ==
    \/ RecoverProjects
    \/ \E p \in ProjNames : RecoverProject(p)
    \/ RecoverJoin

\* the backup cycles of a scheduler that runs them one after another
Backup ==
    BackupCycle(1)

Next ==
    \/ Recover
    \/ Scrape
    \/ Collect
    \/ Backup

Spec ==
    Init /\ [][Next]_vars

\* the scenarios of section 8, from a server that holds no checkpoint
InitScenario ==
    /\ Fresh
    /\ script \in Scenarios
    /\ genericobjects = <<>>
    /\ created = 0

NextScenario ==
    \/ Recover
    \/ Scrape
    \/ Collect

SpecScenario ==
    InitScenario /\ [][NextScenario]_vars

\* the process ends, between a scrape and a backup, and a new process
\* starts: newMetric (lines 160-167) and the empty vectors (lines 34-148);
\* the server keeps its records
Restart ==
    /\ script = "restart"
    /\ Recovered
    /\ fetchPc = "idle"
    /\ collectPc = "idle"
    /\ \A b \in Cycles : backupPc[b] = "idle"
    /\ Projects # <<>>
    /\ Projects' = <<>>
    /\ Stacks' = <<>>
    /\ Services' = <<>>
    /\ Instances' = <<>>
    /\ infinityWorksHostsState' = NoSeries
    /\ infinityWorksHostAgentsState' = NoSeries
    /\ infinityWorksStacksHealth' = NoSeries
    /\ infinityWorksStacksState' = NoSeries
    /\ infinityWorksServicesScale' = NoSeries
    /\ infinityWorksServicesHealth' = NoSeries
    /\ infinityWorksServicesState' = NoSeries
    /\ extendingTotalStackBootstrap' = NoSeries
    /\ extendingTotalStackFailure' = NoSeries
    /\ extendingTotalServiceBootstrap' = NoSeries
    /\ extendingTotalServiceFailure' = NoSeries
    /\ extendingTotalInstanceBootstrap' = NoSeries
    /\ extendingTotalInstanceFailure' = NoSeries
    /\ extendingInstanceBootstrapMsCost' = NoSeries
    /\ extendingStackHeartbeat' = NoSeries
    /\ extendingServiceHeartbeat' = NoSeries
    /\ extendingInstanceHeartbeat' = NoSeries
    /\ phase' = "startup"
    /\ rtask' = [p \in ProjNames |-> "idle"]
    /\ UNCHANGED <<m, tasks, collectPc, backupPc, btask, genObjIdsMap, backups,
                   genericobjects, created, scrapes, script, loop>>
    /\ obs' = NoObs

\* a checkpoint written by a process and read by the next one
InitRestart ==
    /\ Fresh
    /\ script = "restart"
    /\ genericobjects \in EarlierRecords
    /\ created = Len(genericobjects)

NextRestart ==
    \/ Recover
    \/ Scrape
    \/ Backup
    \/ Restart

SpecRestart ==
    InitRestart /\ [][NextRestart]_vars

-----------------------------------------------------------------------------
(* rancherClient.get when the GET fails, lines 176-195.  With a transport  *)
(* error resp is nil and `defer resp.Body.Close()` (line 188) panics; with *)
(* a body that is not the JSON of a target, Decode fails, the error is     *)
(* logged and &t is returned with no data and a nil Pagination.  The step  *)
(* is observed: the GET and the error.                                     *)

GetErrors ==
    {"transport", "decode"}

GetFailed(url, e) ==
    [kind |-> "error", key |-> url, prev |-> Bot, d |-> e]

\* a panic that no deferred function recovers ends the process, and with it
\* every goroutine of the scrape
EndOfProcess ==
    /\ phase' = "crashed"
    /\ fetchPc' = "idle"
    /\ hostsPc' = "idle"
    /\ projPc' = "idle"
    /\ ptask' = [p \in ProjNames |-> Idle]
    /\ stask' = [k \in StackKeys |-> Idle]
    /\ vtask' = [k \in ServiceKeys |-> Idle]

\* lines 946-950: the hosts goroutine defers gwg.Done() only: the panic ends
\* the process; without data the range loop has nothing to do
HostsGetFails(e) ==
    /\ hostsPc = "run"
    /\ IF e = "transport"
       THEN EndOfProcess
       ELSE /\ hostsPc' = "done"
            /\ UNCHANGED <<phase, fetchPc, projPc, ptask, stask, vtask>>
    /\ UNCHANGED <<model, m, gauges, heartbeats, totals,
                   extendingInstanceBootstrapMsCost, collectPc, checkpoint,
                   scrapes, script, loop>>
    /\ obs' = GetFailed(<<"hosts">>, e)

\* lines 983-1016: the projects goroutine defers gwg.Done() only: the panic
\* ends the process; without data the projects already known are fetched
ProjectsGetFails(e) ==
    /\ projPc = "get"
    /\ IF e = "transport"
       THEN EndOfProcess
       ELSE /\ projPc' = "wait"
            /\ ptask' = [p \in ProjNames |->
                            IF p \in DOMAIN Projects
                            THEN StartFetch(Projects[p].Id)
                            ELSE ptask[p]]
            /\ UNCHANGED <<phase, fetchPc, hostsPc, stask, vtask>>
    /\ UNCHANGED <<model, m, gauges, heartbeats, totals,
                   extendingInstanceBootstrapMsCost, collectPc, checkpoint,
                   scrapes, script, loop>>
    /\ obs' = GetFailed(<<"projects">>, e)

\* lines 554-558 and 573-676: the panic of get, or that of
\* t.Pagination.Next on the nil Pagination, is recovered by the deferred
\* function of project.fetch, which returns
ProjectFetchGetFails(p, e) ==
    /\ ptask[p].pc = "get"
    /\ ptask' = [ptask EXCEPT ![p] = Returned]
    /\ UNCHANGED <<model, m, gauges, heartbeats, totals,
                   extendingInstanceBootstrapMsCost, fetchPc, hostsPc, projPc,
                   stask, vtask, collectPc, phase, checkpoint, scrapes, script,
                   loop>>
    /\ obs' = GetFailed(<<"stacks", p>>, e)

\* lines 403-407 and 422-528, the same in stack.fetch
StackFetchGetFails(k, e) ==
    /\ stask[k].pc = "get"
    /\ stask' = [stask EXCEPT ![k] = Returned]
    /\ UNCHANGED <<model, m, gauges, heartbeats, totals,
                   extendingInstanceBootstrapMsCost, fetchPc, hostsPc, projPc,
                   ptask, vtask, collectPc, phase, checkpoint, scrapes, script,
                   loop>>
    /\ obs' = GetFailed(<<"services", k>>, e)

\* lines 278-282 and 292-386, the same in service.fetch
ServiceFetchGetFails(k, e) ==
    /\ vtask[k].pc = "get"
    /\ vtask' = [vtask EXCEPT ![k] = Returned]
    /\ UNCHANGED <<model, m, gauges, heartbeats, totals,
                   extendingInstanceBootstrapMsCost, fetchPc, hostsPc, projPc,
                   ptask, stask, collectPc, phase, checkpoint, scrapes, script,
                   loop>>
    /\ obs' = GetFailed(<<"instances", k>>, e)

\* lines 702-712: the panic of get is recovered by the deferred function of
\* metric.recover, which returns; without data there is no project and no
\* goroutine
RecoverProjectsFails(e) ==
    /\ phase = "startup"
    /\ \A p \in ProjNames : rtask[p] = "idle"
    /\ phase' = "running"
    /\ UNCHANGED <<model, m, gauges, heartbeats, totals,
                   extendingInstanceBootstrapMsCost, tasks, collectPc,
                   checkpoint, scrapes, script, loop>>
    /\ obs' = GetFailed(<<"projects">>, e)

\* lines 739-748: the goroutine of a project defers wg.Done() only: the
\* panic ends the process; without data there is nothing to put back
RecoverProjectFails(p, e) ==
    /\ phase = "startup"
    /\ rtask[p] = "get"
    /\ IF e = "transport"
       THEN phase' = "crashed" /\ UNCHANGED rtask
       ELSE rtask' = [rtask EXCEPT ![p] = "done"] /\ UNCHANGED phase
    /\ UNCHANGED <<model, m, gauges, heartbeats, totals,
                   extendingInstanceBootstrapMsCost, tasks, collectPc, backupPc,
                   btask, genObjIdsMap, backups, genericobjects, created,
                   scrapes, script, loop>>
    /\ obs' = GetFailed(<<"genericobjects", p>>, e)

\* a GET of the recovery or of a scrape fails
GetFails ==
    \E e \in GetErrors :
       \/ HostsGetFails(e)
       \/ ProjectsGetFails(e)
       \/ RecoverProjectsFails(e)
       \/ \E p \in ProjNames :
             \/ ProjectFetchGetFails(p, e)
             \/ RecoverProjectFails(p, e)
       \/ \E k \in StackKeys : StackFetchGetFails(k, e)
       \/ \E k \in ServiceKeys : ServiceFetchGetFails(k, e)

\* the recovery and the scrapes with GETs that may fail; the server holds no
\* record
InitFailure ==
    /\ Fresh
    /\ script = "error"
    /\ genericobjects = <<>>
    /\ created = 0

NextFailure ==
    \/ Recover
    \/ Scrape
    \/ GetFails

SpecFailure ==
    InitFailure /\ [][NextFailure]_vars

\* the scrapes with the pages free at every level and the data items those
\* of the scenarios; the scheduler of Go runs every goroutine that can run,
\* and the server ends every chain of pages
InitPages ==
    /\ Fresh
    /\ script = "pages"
    /\ genericobjects = <<>>
    /\ created = 0

NextPages ==
    \/ Recover
    \/ Scrape

SpecPages ==
    InitPages /\ [][NextPages]_vars /\ WF_vars(NextPages)

\* the checkpoints written by backup cycles that may be in progress
\* together ("overlap"), and the checkpoints of two projects ("keys")
InitBackup ==
    /\ Fresh
    /\ script \in {"overlap", "keys"}
    /\ genericobjects \in CheckpointRecords
    /\ created = Len(genericobjects)

NextBackup ==
    \/ Recover
    \/ \E b \in Cycles : BackupCycle(b)

SpecBackup ==
    InitBackup /\ [][NextBackup]_vars

\* the scrape with the gauge loops of project.fetch taken one Set at a time
ScrapeBySet ==
    \/ FetchLock
    \/ FetchHosts
    \/ FetchProjects
    \/ FetchProjectsJoin
    \/ FetchUnlock
    \/ \E p \in ProjNames :
          \/ ProjectFetchGet(p)
          \/ ProjectFetchItem(p)
          \/ ProjectFetchHealth(p)
          \/ ProjectFetchState(p)
          \/ ProjectFetchAccount(p)
          \/ ProjectFetchFork(p)
          \/ ProjectFetchJoin(p)
    \/ \E k \in StackKeys :
          \/ StackFetchGet(k)
          \/ StackFetchFork(k)
          \/ StackFetchJoin(k)

\* a project that is renamed between two scrapes and whose stack has no
\* services, on a server that holds no checkpoint
InitGauge ==
    /\ Fresh
    /\ script = "rename"
    /\ genericobjects = <<>>
    /\ created = 0

NextGauge ==
    \/ Recover
    \/ ScrapeBySet
    \/ Collect

SpecGauge ==
    InitGauge /\ [][NextGauge]_vars

\* the values createdTS and firstRunningTS of an instance may have: small
\* ones, the milliseconds of a date of 2026, 2^53 + 1, 2^63 and 2^64 - 1
Timestamps ==
    {Uint64(0), Uint64(1800), Uint64(2000), <<11264, 20816, 410, 0>>,
     <<11514, 20816, 410, 0>>, <<1, 0, 0, 32>>, <<0, 0, 0, 32768>>,
     <<65535, 65535, 65535, 65535>>}

\* lines 295-380, the body of the range loop of service.fetch for an
\* instance that is answered stopped first and running then, with
\* timestamps of the full width of a uint64
ClockObserve(k) ==
    /\ vtask[k].pc = "obs"
    /\ \E createdTS \in Timestamps, firstRunningTS \in Timestamps :
          LET kk == <<k[1], k[2], k[3], "ins">>
              ok == kk \in DOMAIN Instances
              d == [ID |-> "1i1", Name |-> "ins",
                    State |-> IF ok THEN "running" ELSE "stopped",
                    System |-> FALSE, Type |-> "container",
                    CreatedTS |-> createdTS, FirstRunningTS |-> firstRunningTS]
              l == <<k[1], k[2], k[3], d.Name, FormatBool(d.System), d.Type>>
              delta == IF ok THEN instanceTake(Instances[kk].State, d)
                             ELSE instanceNew(d)
              setsMs == /\ IF ok THEN Instances[kk].State # d.State /\ d.State = "running"
                                 ELSE d.State \in {"stopped", "running"}
                        /\ firstRunningTS # Uint64(0)
              instanceStartupTime ==
                 IF setsMs THEN Sub64(firstRunningTS, createdTS) ELSE Uint64(0)
          IN  /\ extendingInstanceHeartbeat' = SetValue(extendingInstanceHeartbeat, l, 1)
              /\ extendingInstanceBootstrapMsCost' =
                    IF setsMs
                    THEN SetValue(extendingInstanceBootstrapMsCost, l,
                                  Float64(instanceStartupTime))
                    ELSE extendingInstanceBootstrapMsCost
              /\ IF ok
                 THEN /\ extendingTotalInstanceBootstrap' =
                            TakeSeries(extendingTotalInstanceBootstrap, l, delta[1])
                      /\ extendingTotalInstanceFailure' =
                            TakeSeries(extendingTotalInstanceFailure, l, delta[2])
                      /\ Instances' = [Instances EXCEPT ![kk] = instanceUpdate(@, d, delta)]
                 ELSE /\ extendingTotalInstanceBootstrap' =
                            NewSeries(extendingTotalInstanceBootstrap, l, delta[1])
                      /\ extendingTotalInstanceFailure' =
                            NewSeries(extendingTotalInstanceFailure, l, delta[2])
                      /\ Instances' = Instances @@
                            (kk :> [Id |-> d.ID, Name |-> d.Name, State |-> d.State,
                                    Type |-> d.Type, BootstrapCount |-> delta[1],
                                    FailureCount |-> delta[2], System |-> d.System,
                                    StartupTime |-> instanceStartupTime])
              /\ obs' = [kind |-> "instance", key |-> kk,
                         prev |-> IF ok THEN Instances[kk].State ELSE Bot, d |-> d]
    /\ vtask' = [vtask EXCEPT ![k] = Handled(@)]
    /\ UNCHANGED <<Projects, Stacks, Services, m, gauges, extendingStackHeartbeat,
                   extendingServiceHeartbeat, stackTotals, serviceTotals,
                   fetchPc, hostsPc, projPc, ptask, stask, collectPc, scrapes, script, loop, phase, checkpoint>>

ScrapeByClock ==
    \/ FetchLock
    \/ FetchHosts
    \/ FetchProjects
    \/ FetchProjectsJoin
    \/ FetchUnlock
    \/ \E p \in ProjNames :
          \/ ProjectFetchGet(p)
          \/ ProjectFetchObserve(p)
          \/ ProjectFetchFork(p)
          \/ ProjectFetchJoin(p)
    \/ \E k \in StackKeys :
          \/ StackFetchGet(k)
          \/ StackFetchObserve(k)
          \/ StackFetchFork(k)
          \/ StackFetchJoin(k)
    \/ \E k \in ServiceKeys :
          \/ ServiceFetchGet(k)
          \/ ClockObserve(k)
          \/ ServiceFetchReturn(k)

\* an instance whose timestamps take the values a uint64 can hold, on a
\* server that holds no checkpoint
InitClock ==
    /\ Fresh
    /\ script = "clock"
    /\ genericobjects = <<>>
    /\ created = 0

NextClock ==
    \/ Recover
    \/ ScrapeByClock

SpecClock ==
    InitClock /\ [][NextClock]_vars

-----------------------------------------------------------------------------
(* Measures used by the properties.                                        *)

\* the counters of a node of the model, 0 where the node is not in the model
Counts(nodes, k) ==
    IF k \in DOMAIN nodes
    THEN <<nodes[k].BootstrapCount, nodes[k].FailureCount>>
    ELSE <<0, 0>>

\* the state a node of the model had, Bot where the node is not in the model
StateOf(nodes, k) ==
    IF k \in DOMAIN nodes THEN nodes[k].State ELSE Bot

\* no series of the counter vector is lost or decreases
SeriesGrow(before, after) ==
    \A l \in DOMAIN before : l \in DOMAIN after /\ after[l] >= before[l]

\* no node of the map is lost and no counter of a node decreases
CountsGrow(before, after) ==
    \A k \in DOMAIN before :
       /\ k \in DOMAIN after
       /\ after[k].BootstrapCount >= before[k].BootstrapCount
       /\ after[k].FailureCount >= before[k].FailureCount

\* the counter vector changes by delta at label l and nowhere else
SeriesDelta(before, after, l, delta) ==
    /\ Val(after, l) = Val(before, l) + delta
    /\ \A o \in (DOMAIN before \cup DOMAIN after) \ {l} :
          Val(after, o) = Val(before, o)

\* the counters of node k change by delta and those of no other node change
CountsDelta(before, after, k, delta) ==
    /\ Counts(after, k)[1] = Counts(before, k)[1] + delta[1]
    /\ Counts(after, k)[2] = Counts(before, k)[2] + delta[2]
    /\ \A o \in (DOMAIN before \cup DOMAIN after) \ {k} :
          Counts(after, o) = Counts(before, o)

-----------------------------------------------------------------------------
\* C1: from one step of the process to the next, the bootstrap and failure
\* counts of every stack, service and instance of the model, and the value of
\* every series of the six *_bootstrap_total and *_failure_total counters,
\* never decrease (and no node and no series is lost).
C1_CountersNeverDecrease ==
    [][/\ CountsGrow(Stacks, Stacks')
       /\ CountsGrow(Services, Services')
       /\ CountsGrow(Instances, Instances')
       /\ SeriesGrow(extendingTotalStackBootstrap, extendingTotalStackBootstrap')
       /\ SeriesGrow(extendingTotalStackFailure, extendingTotalStackFailure')
       /\ SeriesGrow(extendingTotalServiceBootstrap, extendingTotalServiceBootstrap')
       /\ SeriesGrow(extendingTotalServiceFailure, extendingTotalServiceFailure')
       /\ SeriesGrow(extendingTotalInstanceBootstrap, extendingTotalInstanceBootstrap')
       /\ SeriesGrow(extendingTotalInstanceFailure, extendingTotalInstanceFailure')]_vars

\* the second scrape has ended and has counted a second bootstrap of a stack
\* that the first scrape had counted once
C1_Witness ==
    /\ scrapes = 2
    /\ fetchPc = "idle"
    /\ \E k \in DOMAIN Stacks :
          /\ Stacks[k].BootstrapCount = 2
          /\ Val(extendingTotalStackBootstrap,
                 <<k[1], k[2], FormatBool(FALSE), Stacks[k].Type>>) = 2

-----------------------------------------------------------------------------
\* the increments <<bootstrap, failure>> of rules S1-S4 for a stack or a
\* service last seen in state prev (Bot: never seen) and observed in state
\* new with health state health
RuleS(prev, new, health) ==
    IF prev = new
    THEN <<0, 0>>
    ELSE IF new = "active"
         THEN IF health = "unhealthy" THEN <<1, 1>> ELSE <<1, 0>>
         ELSE IF new = "error" THEN <<1, 1>> ELSE <<0, 0>>

\* the handling of one stack changes the stack's counters, and its two
\* counter series, by the increments of rules S1-S4 and no other
StackRule ==
    LET k == obs'.key
        d == obs'.d
        l == <<k[1], k[2], FormatBool(d.System), d.Type>>
        delta == RuleS(StateOf(Stacks, k), d.State, d.HealthState)
    IN  /\ CountsDelta(Stacks, Stacks', k, delta)
        /\ Stacks'[k].State = d.State
        /\ SeriesDelta(extendingTotalStackBootstrap,
                       extendingTotalStackBootstrap', l, delta[1])
        /\ SeriesDelta(extendingTotalStackFailure,
                       extendingTotalStackFailure', l, delta[2])

ServiceRule ==
    LET k == obs'.key
        d == obs'.d
        l == <<k[1], k[2], k[3], FormatBool(d.System), d.Type>>
        delta == RuleS(StateOf(Services, k), d.State, d.HealthState)
    IN  /\ CountsDelta(Services, Services', k, delta)
        /\ Services'[k].State = d.State
        /\ SeriesDelta(extendingTotalServiceBootstrap,
                       extendingTotalServiceBootstrap', l, delta[1])
        /\ SeriesDelta(extendingTotalServiceFailure,
                       extendingTotalServiceFailure', l, delta[2])

\* C2: when a scrape handles a stack or a service that is new to the model,
\* or whose stored state differs from the observed one, the node's counters
\* and its counter series change by: +1 bootstrap when observed active and
\* not unhealthy; +1 bootstrap and +1 failure when observed active and
\* unhealthy; +1 bootstrap and +1 failure when observed in error; nothing
\* in any other state; and nothing when the stored state is the observed one.
C2_StackServiceRules ==
    [][/\ obs'.kind = "stack" => StackRule
       /\ obs'.kind = "service" => ServiceRule]_vars

\* a service known as active has just been observed active again after a
\* change of state, unhealthy: a third bootstrap and a failure
C2_Witness ==
    /\ obs.kind = "service"
    /\ obs.prev \notin {Bot, "active"}
    /\ obs.d.State = "active"
    /\ obs.d.HealthState = "unhealthy"
    /\ Services[obs.key].BootstrapCount >= 2
    /\ Services[obs.key].FailureCount >= 1

-----------------------------------------------------------------------------
\* the increments <<bootstrap, failure>> of rules I1-I4 for an instance
RuleI(prev, new) ==
    IF prev = new
    THEN <<0, 0>>
    ELSE IF new = "running" \/ (prev = Bot /\ new = "stopped")
         THEN <<1, 0>>
         ELSE IF new = "error" THEN <<1, 1>> ELSE <<0, 0>>

\* whether rule I1 applies: a new instance observed running or stopped, or a
\* known one entering running
RuleI1(prev, new) ==
    prev # new /\ (new = "running" \/ (prev = Bot /\ new = "stopped"))

InstanceRule ==
    LET k == obs'.key
        d == obs'.d
        l == <<k[1], k[2], k[3], k[4], FormatBool(d.System), d.Type>>
        prev == StateOf(Instances, k)
        delta == RuleI(prev, d.State)
    IN  /\ CountsDelta(Instances, Instances', k, delta)
        /\ Instances'[k].State = d.State
        /\ SeriesDelta(extendingTotalInstanceBootstrap,
                       extendingTotalInstanceBootstrap', l, delta[1])
        /\ SeriesDelta(extendingTotalInstanceFailure,
                       extendingTotalInstanceFailure', l, delta[2])
        /\ IF RuleI1(prev, d.State) /\ d.FirstRunningTS # 0
           THEN extendingInstanceBootstrapMsCost' =
                   SetValue(extendingInstanceBootstrapMsCost, l,
                            d.FirstRunningTS - d.CreatedTS)
           ELSE extendingInstanceBootstrapMsCost' =
                   extendingInstanceBootstrapMsCost

\* C3: when a scrape handles an instance, a new instance observed running or
\* stopped, and a known one entering running, counts +1 bootstrap; a new or
\* known instance entering error counts +1 bootstrap and +1 failure; nothing
\* is counted otherwise.  In the running/stopped case instance_startup_ms is
\* set to firstRunningTS - createdTS exactly when firstRunningTS is not 0,
\* and is left untouched in every other case.
C3_InstanceRules ==
    [][obs'.kind = "instance" => InstanceRule]_vars

\* an instance new to the model has just been observed running with no
\* first-running timestamp: a bootstrap is counted, no startup time is set
C3_Witness ==
    /\ obs.kind = "instance"
    /\ obs.prev = Bot
    /\ obs.d.State = "running"
    /\ obs.d.FirstRunningTS = 0
    /\ Instances[obs.key].BootstrapCount = 1
    /\ extendingInstanceBootstrapMsCost = NoSeries

-----------------------------------------------------------------------------
\* no series of the counter vector changes its value
SeriesSame(before, after) ==
    \A l \in DOMAIN before \cup DOMAIN after : Val(after, l) = Val(before, l)

\* no node of the map changes its counters
CountsSame(before, after) ==
    \A k \in DOMAIN before \cup DOMAIN after : Counts(after, k) = Counts(before, k)

NoIncrement ==
    /\ CountsSame(Stacks, Stacks')
    /\ CountsSame(Services, Services')
    /\ CountsSame(Instances, Instances')
    /\ SeriesSame(extendingTotalStackBootstrap, extendingTotalStackBootstrap')
    /\ SeriesSame(extendingTotalStackFailure, extendingTotalStackFailure')
    /\ SeriesSame(extendingTotalServiceBootstrap, extendingTotalServiceBootstrap')
    /\ SeriesSame(extendingTotalServiceFailure, extendingTotalServiceFailure')
    /\ SeriesSame(extendingTotalInstanceBootstrap, extendingTotalInstanceBootstrap')
    /\ SeriesSame(extendingTotalInstanceFailure, extendingTotalInstanceFailure')

\* the step handles a node whose stored state is not the observed one (or
\* that is not in the model)
StateChanges ==
    \/ obs'.kind = "stack" /\ StateOf(Stacks, obs'.key) # obs'.d.State
    \/ obs'.kind = "service" /\ StateOf(Services, obs'.key) # obs'.d.State
    \/ obs'.kind = "instance" /\ StateOf(Instances, obs'.key) # obs'.d.State

\* C4: once recovery is over, a step that does not handle a node whose
\* stored state differs from the observed one increments no counter, of the
\* model or of the metrics: a scrape in which every node is observed in its
\* stored state produces no increment, and so does any number of such
\* scrapes in a row.
C4_NoChangeNoIncrement ==
    [][(phase = "running" /\ ~StateChanges) => NoIncrement]_vars

\* the second scrape has just observed, active again, the stack that the
\* first scrape counted once: its count is still 1
C4_Witness ==
    /\ scrapes = 2
    /\ obs.kind = "stack"
    /\ obs.prev = "active"
    /\ obs.d.State = "active"
    /\ Stacks[obs.key].BootstrapCount = 1
    /\ Val(extendingTotalStackBootstrap,
           <<obs.key[1], obs.key[2], FormatBool(obs.d.System), obs.d.Type>>) = 1

-----------------------------------------------------------------------------
(* The scenarios of section 8, read when a scrape has ended.               *)

\* the labels of the scenarios' stack and instance
stkLabels ==
    <<"env", "stk", "false", "stack">>

insLabels ==
    <<"env", "stk", "svc", "ins", "false", "container">>

\* scrape c of the scenario has ended
AfterScrape(name, c) ==
    script = name /\ scrapes = c /\ fetchPc = "idle"

\* the instance's counters, in the model and in the metrics
InstanceCounts(b, f) ==
    /\ Counts(Instances, <<"env", "stk", "svc", "ins">>) = <<b, f>>
    /\ Val(extendingTotalInstanceBootstrap, insLabels) = b
    /\ Val(extendingTotalInstanceFailure, insLabels) = f

\* the stack's counters, in the model and in the metrics
StackCounts(b, f) ==
    /\ Counts(Stacks, <<"env", "stk">>) = <<b, f>>
    /\ Val(extendingTotalStackBootstrap, stkLabels) = b
    /\ Val(extendingTotalStackFailure, stkLabels) = f

\* C5 as the specification states it: the scrape that sees the instance in
\* error leaves failure at 1 and bootstrap at 1, and the scrape that sees it
\* running again (firstRunningTS 2000, createdTS 1800) leaves bootstrap at 2,
\* failure at 1 and instance_startup_ms at 200.
C5_AsStated ==
    /\ AfterScrape("B", 3) => InstanceCounts(1, 1)
    /\ AfterScrape("B", 4) =>
          /\ InstanceCounts(2, 1)
          /\ Val(extendingInstanceBootstrapMsCost, insLabels) = 200

\* C5: an instance counted once as running and then observed in error has,
\* after that scrape, failure 1 and bootstrap 2 (the entry into error is a
\* bootstrap too); observed running again with firstRunningTS 2000 and
\* createdTS 1800 it has, after that scrape, bootstrap 3, failure 1 and
\* instance_startup_ms 200.
C5_ScenarioB ==
    /\ AfterScrape("B", 2) =>
          /\ InstanceCounts(1, 0)
          /\ Val(extendingInstanceBootstrapMsCost, insLabels) = 250
    /\ AfterScrape("B", 3) =>
          /\ InstanceCounts(2, 1)
          /\ Val(extendingInstanceBootstrapMsCost, insLabels) = 250
    /\ AfterScrape("B", 4) =>
          /\ InstanceCounts(3, 1)
          /\ Val(extendingInstanceBootstrapMsCost, insLabels) = 200

\* the fourth scrape of scenario B has ended, the instance is running again
C5_Witness ==
    /\ AfterScrape("B", 4)
    /\ Instances[<<"env", "stk", "svc", "ins">>].State = "running"
    /\ InstanceCounts(3, 1)

\* C6: a stack observed active, upgrading, active and unhealthy, active and
\* unhealthy has bootstrap 1, 1, 2, 2 and failure 0, 0, 1, 1 after the four
\* scrapes: the return to active is counted, the scrape that finds it active
\* again is not.
C6_ScenarioC ==
    /\ AfterScrape("C", 1) => StackCounts(1, 0)
    /\ AfterScrape("C", 2) => StackCounts(1, 0)
    /\ AfterScrape("C", 3) => StackCounts(2, 1)
    /\ AfterScrape("C", 4) => StackCounts(2, 1)

\* the fourth scrape of scenario C has ended
C6_Witness ==
    /\ AfterScrape("C", 4)
    /\ Stacks[<<"env", "stk">>].State = "active"
    /\ StackCounts(2, 1)

-----------------------------------------------------------------------------
\* the label tuple l with its enumerated value (at position pos) left out
Identity(l, pos) ==
    [i \in (1..Len(l)) \ {pos} |-> l[i]]

\* every series of the gauge is 0 or 1, and of the series of one labelled
\* identity at most one is 1
OneHotGauge(vec, pos) ==
    /\ \A l \in DOMAIN vec : vec[l] \in {0, 1}
    /\ \A l1, l2 \in DOMAIN vec :
          (/\ Identity(l1, pos) = Identity(l2, pos)
           /\ vec[l1] = 1
           /\ vec[l2] = 1) => l1 = l2

\* C7: at every collect, for every labelled identity of the stack and
\* service health and state gauges and of the host state and agent state
\* gauges, at most one enumerated value carries 1 and all others carry 0.
C7_OneHotAtCollect ==
    collectPc = "reading" =>
       /\ OneHotGauge(infinityWorksStacksHealth, 3)
       /\ OneHotGauge(infinityWorksStacksState, 3)
       /\ OneHotGauge(infinityWorksServicesHealth, 5)
       /\ OneHotGauge(infinityWorksServicesState, 5)
       /\ OneHotGauge(infinityWorksHostsState, 3)
       /\ OneHotGauge(infinityWorksHostAgentsState, 3)

-----------------------------------------------------------------------------
\* the nodes of the map stay, and those the step does not handle keep their
\* fields
Kept(before, after, kind) ==
    \A k \in DOMAIN before :
       /\ k \in DOMAIN after
       /\ (obs'.kind = kind /\ obs'.key = k) \/ after[k] = before[k]

\* C8: no step removes a project, stack, service or instance from the
\* model, and a node that a step does not handle (one absent from the
\* snapshots) keeps its state and its counters.
C8_NothingRemoved ==
    [][/\ DOMAIN Projects \subseteq DOMAIN Projects'
       /\ Kept(Stacks, Stacks', "stack")
       /\ Kept(Services, Services', "service")
       /\ Kept(Instances, Instances', "instance")]_vars

\* the second scrape has ended without having seen a stack, and the stack
\* counted earlier is still in the model with its count
C8_Witness ==
    /\ scrapes = 2
    /\ fetchPc = "idle"
    /\ extendingStackHeartbeat = NoSeries
    /\ \E k \in DOMAIN Stacks : Stacks[k].BootstrapCount >= 1

-----------------------------------------------------------------------------
\* a goroutine of the scrape has started and has not been joined
Walking ==
    \/ hostsPc # "idle"
    \/ projPc # "idle"
    \/ \E p \in ProjNames : ptask[p].pc # "idle"
    \/ \E k \in StackKeys : stask[k].pc # "idle"
    \/ \E k \in ServiceKeys : vtask[k].pc # "idle"

\* C9: a scrape holds the writer lock from its first reset to its last
\* mutation, a collect and a backup each hold the reader lock; no collect
\* and no backup is in progress while a scrape is, and a collect and a
\* backup may be in progress together.
C9_WriterExcludesReaders ==
    /\ fetchPc # "idle" <=> m.writer
    /\ Walking => m.writer
    /\ m.readers = (IF collectPc = "reading" THEN 1 ELSE 0)
                   + Cardinality({b \in Cycles : backupPc[b] # "idle"})
    /\ m.writer => /\ m.readers = 0
                   /\ collectPc = "idle"
                   /\ \A b \in Cycles : backupPc[b] = "idle"

\* a collect and a backup hold the reader lock together
C9_Witness ==
    /\ collectPc = "reading"
    /\ backupPc[1] = "wait"
    /\ m.readers = 2
    /\ ~m.writer

-----------------------------------------------------------------------------
\* C10 as the specification states it: every mutation of the model, those of
\* recovery included, is made while the writer lock is held.
C10_AsStated ==
    [][model' # model => m.writer]_vars

\* C10: every mutation of the model made once recovery is over (by the walk
\* and the accounting of a scrape) is made while the writer lock is held;
\* metric.recover seeds and rehydrates the model at startup without taking
\* the lock.
C10_MutationsLocked ==
    [][model' # model =>
          IF phase = "startup" THEN ~m.writer ELSE m.writer]_vars

\* the first scrape, holding the writer lock, has just handled a stack that
\* recovery had put into the model
C10_Witness ==
    /\ scrapes = 1
    /\ m.writer
    /\ obs.kind = "stack"
    /\ obs.prev # Bot
    /\ Stacks[obs.key].BootstrapCount >= 5

-----------------------------------------------------------------------------
\* The checkpoints (metric.backup, lines 843-914)

\* the project keys a checkpoint record may carry
Keys ==
    {"1a5", "1a6"}

\* the IDs of the records stored under a key
RecordIds(store, key) ==
    {store[i].ID : i \in {j \in DOMAIN store : store[j].Key = key}}

\* C11: once a checkpoint record exists for a project key, no step of any
\* interleaving of backup cycles (creates that fail, removes that fail,
\* cycles in progress together) leaves the key without a record.
C11_AlwaysACheckpoint ==
    [][\A key \in Keys :
          RecordIds(genericobjects, key) # {}
             => RecordIds(genericobjects', key) # {}]_vars

\* two cycles are in progress together, one of them has removed the old
\* record of a key and the other has failed to remove it
C11_Witness ==
    /\ script = "overlap"
    /\ \A b \in Cycles : backupPc[b] = "wait"
    /\ \E p \in ProjNames :
          /\ btask[1][p].pc = "done" /\ btask[1][p].clean
          /\ btask[2][p].pc = "done" /\ ~btask[2][p].clean
          /\ 1 \notin RecordIds(genericobjects, "1a5")
          /\ RecordIds(genericobjects, "1a5") # {}

\* C12: a create that fails (an error, or a status other than 201) is
\* followed by no remove of its goroutine in that cycle (the goroutine is
\* done) and takes no record away; a create answered 201 leaves the goroutine
\* with the removal of every record listed under the key, those an earlier
\* failed cycle has retained included.
C12_FailedCreateKeepsOld ==
    [][obs'.kind = "create" =>
          LET b == obs'.key[1]
              p == obs'.key[2]
          IN  IF obs'.d.statusCode # StatusCreated
              THEN /\ btask'[b][p].pc = "done"
                   /\ btask'[b][p].ids = <<>>
                   /\ \A key \in Keys :
                         RecordIds(genericobjects, key)
                            \subseteq RecordIds(genericobjects', key)
              ELSE btask'[b][p].ids = obs'.prev]_vars

\* of two cycles one has made no record and has kept the old one, and the
\* other has replaced it
C12_Witness ==
    /\ script = "overlap"
    /\ backups = 2
    /\ created = 2
    /\ \A b \in Cycles : \A p \in ProjNames : btask[b][p].pc \in {"idle", "done"}
    /\ RecordIds(genericobjects, "1a5") = {2}

\* the ids the cycle b has listed under the key of the project p, before
\* its creates
Listed(b, p) ==
    IF Projects[p].Id \in DOMAIN genObjIdsMap[b]
    THEN Range(genObjIdsMap[b][Projects[p].Id])
    ELSE {}

\* the goroutine of p in the cycle b ends with this step, its create
\* answered 201 and each of its removes 202
EndsClean(b, p) ==
    /\ btask[b][p].pc \in {"create", "remove"}
    /\ btask'[b][p].pc = "done"
    /\ btask'[b][p].clean

C14_ProjectsIndependent ==
    /\ [](\A b \in Cycles : \A q \in ProjNames :
             /\ btask[b][q].pc = "create" =>
                   ENABLED (/\ BackupCreate(b, q)
                            /\ obs'.d.statusCode = StatusCreated)
             /\ btask[b][q].pc = "remove" => ENABLED BackupRemove(b, q))
    /\ [][obs'.kind \in {"create", "remove"} =>
             LET b == obs'.key[1]
                 p == obs'.key[2]
             IN  /\ \A q \in ProjNames \ {p} : btask'[b][q] = btask[b][q]
                 /\ \A key \in Keys \ {Projects[p].Id} :
                       RecordIds(genericobjects', key)
                          = RecordIds(genericobjects, key)]_vars

\* the create of one project has failed and the record of the other
\* project is replaced in the same cycle
C14_Witness ==
    /\ script = "keys"
    /\ backupPc[1] = "wait"
    /\ btask[1]["env"].pc = "done" /\ btask[1]["env"].made = 0
    /\ btask[1]["env2"].pc = "done" /\ btask[1]["env2"].clean
    /\ RecordIds(genericobjects, "1a5") = {1, 3}
    /\ RecordIds(genericobjects, "1a6") = {4}

-----------------------------------------------------------------------------
\* The round trip of a checkpoint (metric.backup, then metric.recover in the
\* next process)

\* the goroutine of metric.recover for the project p reads, with this step,
\* a record of its key
Recovers(p) ==
    /\ phase = "startup"
    /\ rtask[p] = "get"
    /\ rtask'[p] = "done"
    /\ Len(RecordsOf(Projects[p].Id)) # 0

\* the node k of the snapshot is in the map at its position with counts at
\* least those of the snapshot, and its two series hold at least as much
Rehydrated(node, nodes, k, bootstrap, failure, l) ==
    /\ k \in DOMAIN nodes
    /\ nodes[k].BootstrapCount >= node.BootstrapCount
    /\ nodes[k].FailureCount >= node.FailureCount
    /\ Val(bootstrap, l) >= node.BootstrapCount
    /\ Val(failure, l) >= node.FailureCount

\* C15: when a process that starts reads the last checkpoint of a project,
\* it goes on running, and every stack, service and instance of the
\* checkpointed snapshot is in its model at the same position with counts
\* at least those of the snapshot, the counter series seeded at least as
\* high.
C15_RoundTrip ==
    [][\A p \in ProjNames :
          Recovers(p) =>
             LET t == RecordsOf(Projects[p].Id)
                 M == t[Len(t)].ResourceData
             IN  /\ phase' # "crashed"
                 /\ \A s \in DOMAIN M.Stacks :
                       Rehydrated(M.Stacks[s], Stacks', <<p, s>>,
                                  extendingTotalStackBootstrap',
                                  extendingTotalStackFailure',
                                  <<p, M.Stacks[s].Name,
                                    FormatBool(M.Stacks[s].System),
                                    M.Stacks[s].Type>>)
                 /\ \A v \in DOMAIN M.Services :
                       Rehydrated(M.Services[v], Services', <<p, v[1], v[2]>>,
                                  extendingTotalServiceBootstrap',
                                  extendingTotalServiceFailure',
                                  <<p, v[1], M.Services[v].Name,
                                    FormatBool(M.Services[v].System),
                                    M.Services[v].Type>>)
                 /\ \A i \in DOMAIN M.Instances :
                       Rehydrated(M.Instances[i], Instances', <<p, i[1], i[2], i[3]>>,
                                  extendingTotalInstanceBootstrap',
                                  extendingTotalInstanceFailure',
                                  <<p, i[1], i[2], M.Instances[i].Name,
                                    FormatBool(M.Instances[i].System),
                                    M.Instances[i].Type>>)]_vars

-----------------------------------------------------------------------------
\* The GETs that fail (rancherClient.get, lines 176-195)

\* C16: a transport or JSON-decode error on a GET raises nothing: the step
\* accounts no data (the model and the counters are as before), and the
\* process goes on, in the phase it was in or, when the GET was that of the
\* projects at startup, with the recovery returned.
C16_GetErrorContained ==
    [][obs'.kind = "error" =>
          /\ phase' \in {phase, "running"}
          /\ model' = model
          /\ totals' = totals]_vars

-----------------------------------------------------------------------------
\* The heartbeats and the reset of a scrape (metric.fetch, lines 927-939)

\* metric.fetch starts with this step
ScrapeStarts ==
    fetchPc = "idle" /\ fetchPc' = "wait"

\* the label tuple of the node observed with this step
Observed ==
    obs'.key \o <<FormatBool(obs'.d.System), obs'.d.Type>>

\* the heartbeat gets, with this step, the series of the node observed, at
\* 1, and keeps its other series
Beats(before, after) ==
    /\ DOMAIN after = DOMAIN before \cup {Observed}
    /\ after[Observed] = 1
    /\ \A l \in DOMAIN before \ {Observed} : after[l] = before[l]

\* C17: the three heartbeat gauges are emptied when a scrape starts; until
\* the next scrape starts, the only step that changes one of them is the
\* observation of a stack, service or instance, which sets the series of the
\* labels observed to 1 in the gauge of its level; so when a scrape has
\* ended they hold 1 for exactly the label tuples observed in it, and a
\* node it has not observed has no heartbeat series.
C17_HeartbeatsOfTheScrape ==
    [][/\ ScrapeStarts =>
             /\ extendingStackHeartbeat' = NoSeries
             /\ extendingServiceHeartbeat' = NoSeries
             /\ extendingInstanceHeartbeat' = NoSeries
       /\ obs'.kind = "stack" =>
             /\ Beats(extendingStackHeartbeat, extendingStackHeartbeat')
             /\ UNCHANGED <<extendingServiceHeartbeat, extendingInstanceHeartbeat>>
       /\ obs'.kind = "service" =>
             /\ Beats(extendingServiceHeartbeat, extendingServiceHeartbeat')
             /\ UNCHANGED <<extendingStackHeartbeat, extendingInstanceHeartbeat>>
       /\ obs'.kind = "instance" =>
             /\ Beats(extendingInstanceHeartbeat, extendingInstanceHeartbeat')
             /\ UNCHANGED <<extendingStackHeartbeat, extendingServiceHeartbeat>>
       /\ ~ScrapeStarts /\ obs'.kind \notin {"stack", "service", "instance"} =>
             UNCHANGED heartbeats
       /\ \A l \in DOMAIN extendingStackHeartbeat' : extendingStackHeartbeat'[l] = 1
       /\ \A l \in DOMAIN extendingServiceHeartbeat' : extendingServiceHeartbeat'[l] = 1
       /\ \A l \in DOMAIN extendingInstanceHeartbeat' :
             extendingInstanceHeartbeat'[l] = 1]_vars

\* the second scrape has ended: the stack, which it has not observed, has
\* no heartbeat, and the service, which it has observed, has one
C17_Witness ==
    /\ scrapes = 2
    /\ fetchPc = "idle"
    /\ <<"env", "stk">> \in DOMAIN Stacks
    /\ extendingStackHeartbeat = NoSeries
    /\ DOMAIN extendingServiceHeartbeat = {<<"env", "stk", "svc", "false", "service">>}
    /\ extendingServiceHeartbeat[<<"env", "stk", "svc", "false", "service">>] = 1

\* the two counter series of a level change, with this step, by what the
\* counts of the node observed change by, at its labels and nowhere else
Counted(nodes, after, bootstrap, bootstrapAfter, failure, failureAfter) ==
    /\ SeriesDelta(bootstrap, bootstrapAfter, Observed,
                   Counts(after, obs'.key)[1] - Counts(nodes, obs'.key)[1])
    /\ SeriesDelta(failure, failureAfter, Observed,
                   Counts(after, obs'.key)[2] - Counts(nodes, obs'.key)[2])

\* C18: the start of a scrape empties the seven gauges of the hosts, stacks
\* and services and the three heartbeats, and leaves the six totals, the
\* instance_startup_ms gauge and the model as they are; in the scrape the
\* totals change only where a node is observed, by the increments of its
\* counts, and instance_startup_ms only at the labels of the instance
\* observed.
C18_ResetsTheGaugesOnly ==
    [][/\ ScrapeStarts =>
             /\ \A i \in 1..Len(gauges') : gauges'[i] = NoSeries
             /\ \A i \in 1..Len(heartbeats') : heartbeats'[i] = NoSeries
             /\ UNCHANGED <<totals, extendingInstanceBootstrapMsCost, model>>
       /\ Recovered /\ obs'.kind \notin {"stack", "service", "instance"} =>
             UNCHANGED <<totals, extendingInstanceBootstrapMsCost>>
       /\ obs'.kind = "stack" =>
             /\ Counted(Stacks, Stacks',
                        extendingTotalStackBootstrap, extendingTotalStackBootstrap',
                        extendingTotalStackFailure, extendingTotalStackFailure')
             /\ UNCHANGED <<serviceTotals, instanceTotals,
                            extendingInstanceBootstrapMsCost>>
       /\ obs'.kind = "service" =>
             /\ Counted(Services, Services',
                        extendingTotalServiceBootstrap, extendingTotalServiceBootstrap',
                        extendingTotalServiceFailure, extendingTotalServiceFailure')
             /\ UNCHANGED <<stackTotals, instanceTotals,
                            extendingInstanceBootstrapMsCost>>
       /\ obs'.kind = "instance" =>
             /\ Counted(Instances, Instances',
                        extendingTotalInstanceBootstrap, extendingTotalInstanceBootstrap',
                        extendingTotalInstanceFailure, extendingTotalInstanceFailure')
             /\ UNCHANGED <<stackTotals, serviceTotals>>
             /\ \A l \in (DOMAIN extendingInstanceBootstrapMsCost
                             \cup DOMAIN extendingInstanceBootstrapMsCost')
                                \ {Observed} :
                   /\ l \in DOMAIN extendingInstanceBootstrapMsCost
                   /\ l \in DOMAIN extendingInstanceBootstrapMsCost'
                   /\ extendingInstanceBootstrapMsCost'[l]
                         = extendingInstanceBootstrapMsCost[l]]_vars

\* the second scrape has started: the gauges of the stacks and services are
\* empty, the totals and instance_startup_ms hold what the first has left
C18_Witness ==
    /\ fetchPc = "wait"
    /\ hostsPc = "run"
    /\ scrapes = 2
    /\ \A i \in {3, 4, 5, 6, 7} : gauges[i] = NoSeries
    /\ extendingTotalInstanceBootstrap # NoSeries
    /\ \E l \in DOMAIN extendingTotalInstanceBootstrap :
          extendingTotalInstanceBootstrap[l] >= 1
    /\ extendingInstanceBootstrapMsCost # NoSeries

-----------------------------------------------------------------------------
\* The series of a new node (lines 340-364, 484-506, 632-654)

\* C19: the first observation of a node leaves both its total series in
\* existence, each at what it held before (nothing, that is 0, when the
\* series did not exist) plus the count the node is created with: at 0 both
\* in a state that counts nothing, and the failure series at 0 when the
\* node is counted for a bootstrap only.
C19_NewNodeHasBothSeries ==
    [][obs'.kind \in {"stack", "service", "instance"} /\ obs'.prev = Bot =>
          LET nodes == CASE obs'.kind = "stack" -> Stacks'
                         [] obs'.kind = "service" -> Services'
                         [] OTHER -> Instances'
              bootstrap == CASE obs'.kind = "stack" -> extendingTotalStackBootstrap
                             [] obs'.kind = "service" -> extendingTotalServiceBootstrap
                             [] OTHER -> extendingTotalInstanceBootstrap
              bootstrapAfter == CASE obs'.kind = "stack" -> extendingTotalStackBootstrap'
                                  [] obs'.kind = "service" -> extendingTotalServiceBootstrap'
                                  [] OTHER -> extendingTotalInstanceBootstrap'
              failure == CASE obs'.kind = "stack" -> extendingTotalStackFailure
                           [] obs'.kind = "service" -> extendingTotalServiceFailure
                           [] OTHER -> extendingTotalInstanceFailure
              failureAfter == CASE obs'.kind = "stack" -> extendingTotalStackFailure'
                                [] obs'.kind = "service" -> extendingTotalServiceFailure'
                                [] OTHER -> extendingTotalInstanceFailure'
          IN  /\ Observed \in DOMAIN bootstrapAfter
              /\ Observed \in DOMAIN failureAfter
              /\ bootstrapAfter[Observed]
                    = Val(bootstrap, Observed) + nodes[obs'.key].BootstrapCount
              /\ failureAfter[Observed]
                    = Val(failure, Observed) + nodes[obs'.key].FailureCount]_vars

\* an instance is seen for the first time, running: it is counted for a
\* bootstrap, and its failure series exists at 0
C19_Witness ==
    /\ obs.kind = "instance"
    /\ obs.prev = Bot
    /\ obs.d.State = "running"
    /\ Instances[obs.key].BootstrapCount = 1
    /\ LET l == obs.key \o <<FormatBool(obs.d.System), obs.d.Type>>
       IN  /\ l \in DOMAIN extendingTotalInstanceFailure
           /\ extendingTotalInstanceFailure[l] = 0
           /\ extendingTotalInstanceBootstrap[l] = 1

-----------------------------------------------------------------------------
\* The pagination loops (lines 573-677, 422-529, 292-387)

\* where the loop is after a page of which n items are left, and whose
\* pagination.next is non-empty or not
AfterPage(n, next) ==
    IF n > 0 THEN "obs" ELSE IF next THEN "get" ELSE "fork"

\* a step of the loop of a task, t before and u after; observed says that
\* the step passes a data item of the task to the accounting
LoopStep(t, u, observed) ==
    /\ t.pc = "get" /\ u # t => u.pc = AfterPage(u.n, u.next)
    /\ t.pc = "obs" /\ u # t =>
          /\ observed
          /\ u.n = t.n - 1
          /\ u.next = t.next
          /\ u.pc = AfterPage(u.n, t.next)
    /\ observed => t.pc = "obs" /\ t.n >= 1 /\ u.n = t.n - 1
    /\ t.pc # "fork" /\ u.pc = "fork" => u.n = 0 /\ ~u.next

-----------------------------------------------------------------------------
\* a goroutine that has started and has not returned
Running(t) ==
    t.pc \notin {"idle", "done"}

\* every goroutine that has not returned has its parent at wg.Wait()
ParentsWait ==
    /\ hostsPc # "idle" \/ projPc # "idle" => fetchPc = "wait"
    /\ \A p \in ProjNames : ptask[p].pc # "idle" => projPc = "wait"
    /\ \A k \in StackKeys : stask[k].pc # "idle" => ptask[k[1]].pc = "wait"
    /\ \A k \in ServiceKeys :
          vtask[k].pc # "idle" => stask[<<k[1], k[2]>>].pc = "wait"

\* C21: a scrape returns, and releases the writer lock, only when the hosts
\* branch and the projects branch are done and no project, stack or service
\* task is left; a task that has not returned keeps its parent waiting; and
\* once recovery is over every step that changes the model, a gauge, a
\* heartbeat, a counter or instance_startup_ms belongs to a scrape that has
\* not returned.
C21_JoinsBeforeReturn ==
    [][/\ ParentsWait
       /\ m.writer /\ ~m'.writer =>
             /\ hostsPc = "done" /\ projPc = "done"
             /\ \A p \in ProjNames : ~Running(ptask[p])
             /\ \A k \in StackKeys : ~Running(stask[k])
             /\ \A k \in ServiceKeys : ~Running(vtask[k])
             /\ ~Walking'
       /\ /\ phase = "running"
          /\ <<model, gauges, heartbeats, totals,
               extendingInstanceBootstrapMsCost>>' #
             <<model, gauges, heartbeats, totals,
               extendingInstanceBootstrapMsCost>>
          => fetchPc' = "wait" /\ m'.writer]_vars

\* a scrape has returned after the walks of two projects, forked together,
\* had each reached an instance
C21_Witness ==
    /\ fetchPc = "idle"
    /\ ~m.writer
    /\ ~Walking
    /\ scrapes >= 1
    /\ obs.kind = "none"
    /\ <<"env", "stk", "svc", "ins">> \in DOMAIN Instances
    /\ <<"env2", "stk", "svc", "ins">> \in DOMAIN Instances
    /\ extendingInstanceHeartbeat # NoSeries

-----------------------------------------------------------------------------
\* the pagination loop of a fetch has ended, its children are started and
\* it is at wg.Wait()
LoopDone(t) ==
    t.pc = "wait" /\ t.n = 0 /\ ~t.next

\* the stack of key k is in the model under its project
StackChain(k) ==
    /\ k[1] \in DOMAIN Projects /\ Projects[k[1]].Name = k[1]
    /\ k \in DOMAIN Stacks /\ Stacks[k].Name = k[2]

\* the service of key k is in the model under its stack and project
ServiceChain(k) ==
    /\ StackChain(<<k[1], k[2]>>)
    /\ k \in DOMAIN Services /\ Services[k].Name = k[3]

\* C22: a stack.fetch requests and observes the services of its stack only
\* when the stack loop of the project has ended and the stack is in the
\* model under its project; a service.fetch requests and observes the
\* instances of its service only when the service loop of the stack has
\* ended too and the service is in the model under its stack and project.
C22_LevelByLevel ==
    [][/\ \A k \in StackKeys :
             stask[k].pc \in {"get", "obs"} /\ stask'[k] # stask[k] =>
                /\ LoopDone(ptask[k[1]])
                /\ StackChain(k)
                /\ StackChain(k)'
       /\ \A k \in ServiceKeys :
             vtask[k].pc \in {"get", "obs"} /\ vtask'[k] # vtask[k] =>
                /\ LoopDone(ptask[k[1]])
                /\ LoopDone(stask[<<k[1], k[2]>>])
                /\ ServiceChain(k)
                /\ ServiceChain(k)'
       /\ obs'.kind = "service" =>
             /\ stask[<<obs'.key[1], obs'.key[2]>>].pc = "obs"
             /\ LoopDone(ptask[obs'.key[1]])
             /\ StackChain(<<obs'.key[1], obs'.key[2]>>)
       /\ obs'.kind = "instance" =>
             /\ vtask[<<obs'.key[1], obs'.key[2], obs'.key[3]>>].pc = "obs"
             /\ LoopDone(stask[<<obs'.key[1], obs'.key[2]>>])
             /\ LoopDone(ptask[obs'.key[1]])
             /\ ServiceChain(<<obs'.key[1], obs'.key[2], obs'.key[3]>>)]_vars

\* an instance is observed in the first scrape under a project of which
\* recovery found no record: its stack and its service were put into the
\* model by this scrape
C22_Witness ==
    /\ scrapes = 1
    /\ obs.kind = "instance"
    /\ obs.key[1] = "env2"
    /\ ServiceChain(<<"env2", obs.key[2], obs.key[3]>>)
    /\ LoopDone(stask[<<"env2", obs.key[2]>>])
    /\ LoopDone(ptask["env2"])

-----------------------------------------------------------------------------
\* the node holds the id, type, state and system flag of the data item d
HoldsObserved(node, d) ==
    /\ node.Id = d.ID
    /\ node.Type = d.Type
    /\ node.State = d.State
    /\ node.System = d.System

\* C23: after a scrape has observed a stack, a service or an instance whose
\* name was in the map of its parent, the node of that name in the model
\* holds the observed id, type, state and system flag.
C23_UpdateStoresObserved ==
    [][CASE obs'.kind = "stack" ->
               obs'.prev # Bot => HoldsObserved(Stacks'[obs'.key], obs'.d)
         [] obs'.kind = "service" ->
               obs'.prev # Bot => HoldsObserved(Services'[obs'.key], obs'.d)
         [] obs'.kind = "instance" ->
               obs'.prev # Bot => HoldsObserved(Instances'[obs'.key], obs'.d)
         [] OTHER -> TRUE]_vars

-----------------------------------------------------------------------------
\* the label values of the series of an instance observed as d under key k
instanceLabels(k, d) ==
    <<k[1], k[2], k[3], d.Name, FormatBool(d.System), d.Type>>

\* C24: after a scrape has observed an instance, the startupTime the model
\* holds for it is the value of its instance_startup_ms series, when it has
\* one; in particular when a known instance is observed running after
\* another state, with firstRunningTS not 0, the gauge and the model both
\* hold firstRunningTS - createdTS.
C24_StartupTimeIsTheGauge ==
    [][obs'.kind = "instance" =>
          LET d == obs'.d
              l == instanceLabels(obs'.key, d)
              take == Instances'[obs'.key]
          IN  /\ l \in DOMAIN extendingInstanceBootstrapMsCost' =>
                    take.StartupTime = Val(extendingInstanceBootstrapMsCost', l)
              /\ /\ obs'.prev \notin {Bot, "running"}
                 /\ d.State = "running"
                 /\ d.FirstRunningTS # 0
                 => /\ Val(extendingInstanceBootstrapMsCost', l) =
                          d.FirstRunningTS - d.CreatedTS
                    /\ take.StartupTime = d.FirstRunningTS - d.CreatedTS]_vars

-----------------------------------------------------------------------------
\* the series of a vector that carry the name chain k, whatever their
\* system and type label values
ChainSeries(vec, k) ==
    {l \in DOMAIN vec : \A i \in 1..Len(k) : l[i] = k[i]}

\* the sum of the values of the series L of a vector
RECURSIVE SumOver(_, _)
SumOver(vec, L) ==
    IF L = {}
    THEN 0
    ELSE LET l == CHOOSE x \in L : TRUE
         IN  vec[l] + SumOver(vec, L \ {l})

\* the nodes of a map and the series of its two counters agree: every node
\* has counted what the series of its name chain sum up to, and every
\* series carries the name chain of a node
Paired(nodes, bootstrap, failure, n) ==
    /\ \A k \in DOMAIN nodes :
          /\ nodes[k].BootstrapCount = SumOver(bootstrap, ChainSeries(bootstrap, k))
          /\ nodes[k].FailureCount = SumOver(failure, ChainSeries(failure, k))
    /\ \A l \in DOMAIN bootstrap \cup DOMAIN failure :
          \E k \in DOMAIN nodes : \A i \in 1..n : l[i] = k[i]

\* C25: once recovery is over, at every point of every scrape, the
\* bootstrapCount of every stack, service and instance of the model is the
\* sum of the bootstrap counter series that carry its name chain, and its
\* failureCount the sum of the failure counter series; no counter series
\* is without a node.
C25_CountsAreTheSeries ==
    phase = "running" =>
       /\ Paired(Stacks, extendingTotalStackBootstrap,
                 extendingTotalStackFailure, 2)
       /\ Paired(Services, extendingTotalServiceBootstrap,
                 extendingTotalServiceFailure, 3)
       /\ Paired(Instances, extendingTotalInstanceBootstrap,
                 extendingTotalInstanceFailure, 4)

\* a recovered stack has its stored counts in its series, and an instance
\* observed with two values of the system flag has its count of 2 spread
\* over two series
C25_Witness ==
    /\ phase = "running"
    /\ fetchPc = "idle"
    /\ \E k \in DOMAIN Stacks : Stacks[k].BootstrapCount >= 5
    /\ \E k \in DOMAIN Instances :
          /\ Instances[k].BootstrapCount = 2
          /\ Cardinality(ChainSeries(extendingTotalInstanceBootstrap, k)) = 2
          /\ \A l \in ChainSeries(extendingTotalInstanceBootstrap, k) :
                extendingTotalInstanceBootstrap[l] = 1

-----------------------------------------------------------------------------
\* no node has failed more often than it has started, and a step that
\* counts a failure of a node counts a bootstrap of it too
FailuresAreBootstraps(before, after) ==
    \A k \in DOMAIN after :
       /\ after[k].FailureCount <= after[k].BootstrapCount
       /\ LET prev == IF k \in DOMAIN before
                      THEN before[k]
                      ELSE [BootstrapCount |-> 0, FailureCount |-> 0]
          IN  /\ prev.FailureCount <= prev.BootstrapCount
              /\ after[k].FailureCount - prev.FailureCount
                    <= after[k].BootstrapCount - prev.BootstrapCount

\* C26: every stack, service and instance of the model has failureCount <=
\* bootstrapCount (the recovered checkpoint has), and every step adds to the
\* failureCount of a node at most what it adds to its bootstrapCount.
C26_FailureAtMostBootstrap ==
    [][/\ FailuresAreBootstraps(Stacks, Stacks')
       /\ FailuresAreBootstraps(Services, Services')
       /\ FailuresAreBootstraps(Instances, Instances')]_vars

\* a recovered stack (5 bootstraps, 2 failures) has just been observed
\* active and unhealthy after another state: 6 and 3
C26_Witness ==
    /\ obs.kind = "stack"
    /\ obs.prev \notin {Bot, "active"}
    /\ obs.d.State = "active"
    /\ obs.d.HealthState = "unhealthy"
    /\ Stacks[obs.key].BootstrapCount = 6
    /\ Stacks[obs.key].FailureCount = 3

-----------------------------------------------------------------------------
\* the digits i.. of a + b, with the carry of the digits below i
RECURSIVE AddLimbs(_, _, _, _)
AddLimbs(a, b, i, carry) ==
    IF i > Len(a)
    THEN <<>>
    ELSE <<(a[i] + b[i] + carry) % Limb>>
         \o AddLimbs(a, b, i + 1, (a[i] + b[i] + carry) \div Limb)

\* the number of a uint64, as five digits
Wide(x) ==
    x \o <<0>>

\* a >= b, for two numbers of as many digits
AtLeast(a, b) ==
    \/ a = b
    \/ \E i \in 1..Len(a) :
          a[i] > b[i] /\ \A j \in (i + 1)..Len(a) : a[j] = b[j]

\* v is a uint64 and v = (a - b) mod 2^64: v + b and a differ by a
\* multiple of 2^64
IsDifference(v, a, b) ==
    /\ v \in [1..4 -> 0..(Limb - 1)]
    /\ AddLimbs(v, b, 1, 0) = a

\* v is the time elapsed from b to a: v + b = a, and v <= a
IsElapsed(v, a, b) ==
    /\ AddLimbs(Wide(v), Wide(b), 1, 0) = Wide(a)
    /\ AtLeast(a, v)

\* a - b modulo the range of their digits, as a plus the complement of b
\* plus 1
Difference(a, b) ==
    AddLimbs(a, [i \in 1..Len(b) |-> Limb - 1 - b[i]], 1, 1)

\* the number x is at most 1024
IsSmall(x) ==
    x[1] <= 1024 /\ \A i \in 2..Len(x) : x[i] = 0

\* g is the whole number v, or v is 2^53 or more and g is at most 1024
\* away from it
IsNearest(g, v) ==
    IF v[4] < 32
    THEN g = Wide(v)
    ELSE IsSmall(Difference(g, Wide(v))) \/ IsSmall(Difference(Wide(v), g))

\* g is the whole number v
IsExactly(g, v) ==
    g = Wide(v)

\* what an observation of an instance records of its startup time, with v
\* the difference firstRunningTS - createdTS mod 2^64, which is the time
\* elapsed when firstRunningTS >= createdTS: nothing is set on
\* instance_startup_ms when firstRunningTS is 0, and otherwise v is stored
\* in a node that is created and a number g with R(g, v) is set
Records(R(_, _)) ==
    obs'.kind = "instance" =>
       LET d == obs'.d
           l == instanceLabels(obs'.key, d)
           v == Difference(d.FirstRunningTS, d.CreatedTS)
       IN  IF d.FirstRunningTS = Uint64(0)
           THEN /\ extendingInstanceBootstrapMsCost' =
                      extendingInstanceBootstrapMsCost
                /\ obs'.prev = Bot => Instances'[obs'.key].StartupTime = Uint64(0)
           ELSE /\ IsDifference(v, d.FirstRunningTS, d.CreatedTS)
                /\ AtLeast(d.FirstRunningTS, d.CreatedTS) =>
                      IsElapsed(v, d.FirstRunningTS, d.CreatedTS)
                /\ obs'.prev = Bot => Instances'[obs'.key].StartupTime = v
                /\ l \in DOMAIN extendingInstanceBootstrapMsCost'
                /\ R(extendingInstanceBootstrapMsCost'[l], v)

\* C27 as the specification states it: whenever firstRunningTS is not 0 the
\* value recorded, in the node and on the gauge, is
\* (firstRunningTS - createdTS) mod 2^64.
C27_AsStated ==
    [][Records(IsExactly)]_vars

\* C27: the startup time is the uint64 difference firstRunningTS - createdTS
\* mod 2^64, the time elapsed (and at most firstRunningTS) when
\* firstRunningTS >= createdTS; when firstRunningTS is not 0 a node that is
\* created stores it and instance_startup_ms is set to its float64, which
\* is the same number when it is below 2^53 and at most 1024 away from it
\* otherwise; when firstRunningTS is 0 nothing is set.
C27_StartupTime ==
    [][Records(IsNearest)]_vars

\* a new instance has been observed with firstRunningTS 1800 and
\* createdTS 2000: the node stores 2^64 - 200 and the gauge shows 2^64
C27_Witness ==
    /\ obs.kind = "instance"
    /\ obs.prev = Bot
    /\ obs.d.FirstRunningTS = Uint64(1800)
    /\ obs.d.CreatedTS = Uint64(2000)
    /\ Instances[obs.key].StartupTime = <<65336, 65535, 65535, 65535>>
    /\ extendingInstanceBootstrapMsCost[instanceLabels(obs.key, obs.d)] =
          <<0, 0, 0, 0, 1>>
====
